---- MODULE Spec2Model ----
(***************************************************************************)
(* Stellar Symphony: the deterministic procedural music generator          *)
(* (src/audio/procedural.ts), the Eno-style voice loops, the pattern       *)
(* generator and the star -> music mapping of the audio engine.            *)
(*                                                                         *)
(* Number representation.  TLC integers are 32-bit signed, so              *)
(*   - an unsigned 32-bit word is a pair <<hi, lo>> of 16-bit limbs;        *)
(*   - a whole number of any size is a sequence of 16-bit limbs, lowest    *)
(*     first; the state of a Mulberry32 closure is the whole number its    *)
(*     double holds;                                                       *)
(*   - a random() result is kept as the 32-bit word u with value u / 2^32; *)
(*     floor(random() * k) and comparisons of random() against decimal     *)
(*     constants are computed exactly from u;                              *)
(*   - the Markov weights and probabilities, the velocities and the        *)
(*     fitness of procedural.ts are IEEE doubles [s, m, e], computed with   *)
(*     the rounding of each JavaScript operation;                          *)
(*   - durations of procedural.ts are held in quarter beats.               *)
(***************************************************************************)
EXTENDS Integers, Sequences, FiniteSets, Bags, TLC

----------------------------------------------------------------------------
(* 32-bit words *)

W16 == 65536

RECURSIVE XorBits(_, _, _)
XorBits(a, b, n) ==
  IF n = 0 THEN 0
  ELSE (((a % 2) + (b % 2)) % 2) + 2 * XorBits(a \div 2, b \div 2, n - 1)

\* x ^ y on bytes, tabulated once
XorTable == [a \in 0..255 |-> [b \in 0..255 |-> XorBits(a, b, 8)]]

\* x ^ y on 16-bit limbs
Xor16(x, y) ==
  (XorTable[x \div 256][y \div 256] * 256) + XorTable[x % 256][y % 256]

\* a ^ b on 32-bit words
Xor32(a, b) == <<Xor16(a[1], b[1]), Xor16(a[2], b[2])>>

\* (a + b) | 0, kept unsigned
Add32(a, b) ==
  LET lo == a[2] + b[2]
  IN  <<(a[1] + b[1] + (lo \div W16)) % W16, lo % W16>>

\* the full 32-bit product of two 16-bit limbs
MulLimb(x, y) ==
  LET p0 == (x % 256) * y
      p1 == (x \div 256) * y
      lo == p0 + ((p1 % 256) * 256)
  IN  <<(p1 \div 256) + (lo \div W16), lo % W16>>

\* Math.imul(a, b): the low 32 bits of the product
Imul32(a, b) ==
  LET ll == MulLimb(a[2], b[2])
      cross == (MulLimb(a[1], b[2])[2] + MulLimb(a[2], b[1])[2]) % W16
  IN  <<(ll[1] + cross) % W16, ll[2]>>

\* x >>> 15, x >>> 7, x >>> 14
Shr15(a) == <<a[1] \div 32768, ((a[1] % 32768) * 2) + (a[2] \div 32768)>>
Shr7(a) == <<a[1] \div 128, ((a[1] % 128) * 512) + (a[2] \div 128)>>
Shr14(a) == <<a[1] \div 16384, ((a[1] % 16384) * 4) + (a[2] \div 16384)>>

\* x | 1 and x | 61
Or1(a) == <<a[1], a[2] + (1 - (a[2] % 2))>>
Or61(a) ==
  <<a[1], ((a[2] \div 64) * 64) + 61 + (2 * ((a[2] \div 2) % 2))>>

\* 0x6d2b79f5
MULBERRY_INC == <<27947, 31221>>

\* F(v), with v evaluated once before F is applied to it
Apply(F(_), v) == CHOOSE r \in {F(x) : x \in {v}} : TRUE
Apply3(F(_, _, _), a, b, c) == CHOOSE r \in {F(x, y, z) : x \in {a}, y \in {b}, z \in {c}} : TRUE

\* the mixing statements of the Mulberry32 closure:
\*   t = Math.imul(t ^ (t >>> 15), t | 1)
Mix1(t) == Imul32(Apply(LAMBDA a : Xor32(a, Shr15(a)), t), Or1(t))
\*   t ^= t + Math.imul(t ^ (t >>> 7), t | 61), in steps on <<t, operand>>
Mix2a(t) == <<t, Xor32(t, Shr7(t))>>
Mix2b(p) == <<p[1], Imul32(p[2], Or61(p[1]))>>
Mix2c(p) == <<p[1], Add32(p[1], p[2])>>
Mix2d(p) == Xor32(p[1], p[2])
\*   (t ^ (t >>> 14)) >>> 0
Mix3(t) == Xor32(t, Shr14(t))

\* the body of the Mulberry32 closure on the already advanced state t
Mulberry32(t) ==
  Apply(Mix3, Apply(Mix2d, Apply(Mix2c, Apply(Mix2b, Apply(Mix2a, Apply(Mix1, t))))))

\* floor((u / 2^32) * k) for 0 <= k < 2^15
FloorMul(u, k) == ((u[1] * k) + ((u[2] * k) \div W16)) \div W16

\* floor(1000 * u / 2^32): random() in thousandths
Milli(u) == FloorMul(u, 1000)

\* (u / 2^32) * k is a whole number
WholeMul(u, k) ==
  /\ (u[2] * k) % W16 = 0
  /\ ((u[1] * k) + ((u[2] * k) \div W16)) % W16 = 0

\* random() <= k / 1000 and random() < k / 1000, exactly
LeMilli(u, k) ==
  Apply(LAMBDA v : Milli(v) < k \/ (Milli(v) = k /\ WholeMul(v, 1000)), u)
LtMilli(u, k) == Milli(u) < k

----------------------------------------------------------------------------
(* helpers *)

clamp(val, min, max) ==
  LET m == IF max < val THEN max ELSE val
  IN  IF min > m THEN min ELSE m

Abs(x) == IF x < 0 THEN -x ELSE x
Sign(x) == IF x > 0 THEN 1 ELSE IF x < 0 THEN -1 ELSE 0

\* the JavaScript remainder a % b (sign of the dividend), b > 0
JsMod(a, b) == IF a >= 0 THEN a % b ELSE -((-a) % b)

RECURSIVE SumSeq(_)
SumSeq(s) == IF s = <<>> THEN 0 ELSE s[1] + SumSeq(Tail(s))

RECURSIVE MaxSeq(_)
MaxSeq(s) ==
  IF Len(s) = 1 THEN s[1]
  ELSE LET m == MaxSeq(Tail(s)) IN IF s[1] > m THEN s[1] ELSE m

RECURSIVE MinSeq(_)
MinSeq(s) ==
  IF Len(s) = 1 THEN s[1]
  ELSE LET m == MinSeq(Tail(s)) IN IF s[1] < m THEN s[1] ELSE m

Range(s) == {s[i] : i \in 1..Len(s)}

----------------------------------------------------------------------------
(* whole numbers of any size, doubles that hold whole numbers, and the      *)
(* state of the Mulberry32 closures                                         *)

\* natural numbers of any size: sequences of 16-bit limbs, lowest first,
\* without leading zero limbs (zero is the empty sequence)
RECURSIVE BigTrim(_)
BigTrim(a) ==
  IF a = <<>> THEN <<>>
  ELSE IF a[Len(a)] = 0 THEN BigTrim(SubSeq(a, 1, Len(a) - 1))
  ELSE a

\* the limbs of a sequence of column sums
RECURSIVE BigCarry(_, _)
BigCarry(cols, carry) ==
  IF cols = <<>>
  THEN IF carry = 0 THEN <<>> ELSE <<carry % W16>> \o BigCarry(<<>>, carry \div W16)
  ELSE <<(cols[1] + carry) % W16>> \o BigCarry(Tail(cols), (cols[1] + carry) \div W16)

\* the number n, 0 <= n < 2^31, and the number of the 32-bit word u
Big(n) == BigTrim(<<n % W16, n \div W16>>)
BigOfWord(u) == BigTrim(<<u[2], u[1]>>)

BigLimb(a, i) == IF i \in DOMAIN a THEN a[i] ELSE 0

BigAdd(a, b) ==
  BigTrim(BigCarry([i \in 1..(IF Len(a) > Len(b) THEN Len(a) ELSE Len(b)) |->
                      BigLimb(a, i) + BigLimb(b, i)], 0))

\* a * b: column k of the product sums the low halves of the limb products
\* a[i] * b[j] with i + j = k + 1 and the high halves of those with i + j = k
BigMul(a, b) ==
  LET products == [i \in DOMAIN a |-> [j \in DOMAIN b |-> MulLimb(a[i], b[j])]]
      column(k) ==
        SumSeq([i \in DOMAIN a |->
                  (IF k + 1 - i \in DOMAIN b THEN products[i][k + 1 - i][2] ELSE 0)
                  + (IF k - i \in DOMAIN b THEN products[i][k - i][1] ELSE 0)])
  IN  BigTrim(BigCarry([k \in 1..(Len(a) + Len(b)) |-> column(k)], 0))

RECURSIVE BigLeFrom(_, _, _)
BigLeFrom(a, b, i) ==
  IF i = 0 THEN TRUE
  ELSE IF a[i] # b[i] THEN a[i] < b[i]
  ELSE BigLeFrom(a, b, i - 1)

\* a <= b
BigLe(a, b) ==
  IF Len(a) # Len(b) THEN Len(a) < Len(b) ELSE BigLeFrom(a, b, Len(a))

\* the bit length of a limb
RECURSIVE BitLen(_)
BitLen(x) == IF x = 0 THEN 0 ELSE 1 + BitLen(x \div 2)

RECURSIVE Pow2(_)
Pow2(q) == IF q = 0 THEN 1 ELSE 2 * Pow2(q - 1)

\* a div 2^q, a mod 2^q and 2^q
BigHigh(a, q) ==
  LET w == q \div 16
      b == q % 16
  IN  IF Len(a) <= w THEN <<>>
      ELSE BigTrim([i \in 1..(Len(a) - w) |->
                      (a[i + w] \div Pow2(b))
                      + ((BigLimb(a, i + w + 1) % Pow2(b)) * Pow2(16 - b))])

BigLow(a, q) ==
  LET w == q \div 16
  IN  BigTrim([i \in 1..(IF Len(a) < w + 1 THEN Len(a) ELSE w + 1) |->
                 IF i <= w THEN a[i] ELSE a[i] % Pow2(q % 16)])

Pow2Big(q) == [i \in 1..((q \div 16) + 1) |-> IF i = (q \div 16) + 1 THEN Pow2(q % 16) ELSE 0]

\* a * 2^q
BigShl(a, q) ==
  LET w == q \div 16
      up == Pow2(q % 16)
      down == Pow2(16 - (q % 16))
  IN  IF a = <<>> THEN <<>>
      ELSE BigTrim([i \in 1..(Len(a) + w + 1) |->
                      IF i <= w THEN 0
                      ELSE ((BigLimb(a, i - w) % down) * up)
                           + (BigLimb(a, (i - w) - 1) \div down)])

\* a - b for a >= b, limb by limb from limb i on
RECURSIVE BigBorrow(_, _, _, _)
BigBorrow(a, b, i, borrow) ==
  IF i > Len(a) THEN <<>>
  ELSE LET v == (a[i] - BigLimb(b, i)) - borrow
       IN  <<v % W16>> \o BigBorrow(a, b, i + 1, IF v < 0 THEN 1 ELSE 0)

BigSub(a, b) == BigTrim(BigBorrow(a, b, 1, 0))

\* the number of bits of a
BigBits(a) == IF a = <<>> THEN 0 ELSE (16 * (Len(a) - 1)) + BitLen(a[Len(a)])

\* a mantissa whose low bits are rounded away: upwards when the low bits are
\* more than half of the last place, or are the half and the mantissa is odd
RoundMantissa(high, low, half) ==
  IF (IF low = half THEN high[1] % 2 = 1 ELSE BigLe(half, low))
  THEN BigAdd(high, <<1>>)
  ELSE high

\* a / 2^q rounded to the nearest whole number, a tie to the even one, q >= 1
RoundBits(a, q) == RoundMantissa(BigHigh(a, q), BigLow(a, q), Pow2Big(q - 1))

\* the double nearest to the whole number a: a itself up to 53 bits, beyond
\* them the low bits are rounded away, a tie to the even neighbour.  A
\* double held in units of a power of two is rounded the same way.
RoundDouble(a) ==
  IF BigBits(a) <= 53 THEN a
  ELSE BigShl(RoundBits(a, BigBits(a) - 53), BigBits(a) - 53)

\* the state after k calls of the closure: t += 0x6d2b79f5 in double
\* precision.  The sum of t and k increments is exact as long as it stays
\* below 2^53; beyond, each sum is rounded to a double, call by call.
RECURSIVE Skip(_, _)
SkipTo(t, k, exact) ==
  IF BigBits(exact) <= 53 THEN exact
  ELSE IF k = 1 THEN RoundDouble(exact)
  ELSE Apply(LAMBDA mid : Skip(mid, k - (k \div 2)), Skip(t, k \div 2))

Skip(t, k) ==
  IF k = 0 THEN t
  ELSE SkipTo(t, k, BigAdd(t, BigMul(Big(k), BigOfWord(MULBERRY_INC))))

\* the output of the k-th call of the closure (k >= 1): the mixing reads the low 32
\* bits of the state
Draw(t, k) ==
  Apply(LAMBDA a : Mulberry32(<<BigLimb(a, 2), BigLimb(a, 1)>>), Skip(t, k))

\* state || 1: a state of 0 is replaced by 1
OrOne(state) == IF state = <<>> THEN <<1>> ELSE state

\* createRNG(seed) of procedural.ts for a whole seed 0 <= seed < 2^31:
\* t = Math.floor(seed * 0xffffffff), the product rounded to a double
createRNG(seed) == RoundDouble(BigMul(Big(seed), <<W16 - 1, W16 - 1>>))

----------------------------------------------------------------------------
(* IEEE 754 doubles.  A double is a record [s, m, e] of the value           *)
(* s * m * 2^e: the sign s is 1 or -1 and the mantissa m is a whole number  *)
(* of exactly 53 bits, or zero (with s = 1 and e = 0).  NaN is the record   *)
(* with s = 0.  The results of the operations are rounded to the nearest    *)
(* double, a tie to the even mantissa, as the JavaScript operators round.   *)

FZero == [s |-> 1, m |-> <<>>, e |-> 0]
FNaN == [s |-> 0, m |-> <<>>, e |-> 0]

\* the double s * m * 2^e of a mantissa that rounding may have carried to 2^53
FNormal(s, m, e) ==
  IF BigBits(m) = 54 THEN [s |-> s, m |-> Pow2Big(52), e |-> e + 1]
  ELSE [s |-> s, m |-> m, e |-> e]

\* the double nearest to s * a * 2^e for a whole number a: a number of fewer
\* than 53 bits is shifted up to 53, of a number of more the low bits are
\* rounded away
FRound(s, a, e) ==
  IF a = <<>> THEN FZero
  ELSE IF BigBits(a) <= 53
  THEN [s |-> s, m |-> BigShl(a, 53 - BigBits(a)), e |-> e - (53 - BigBits(a))]
  ELSE FNormal(s, RoundBits(a, BigBits(a) - 53), e + (BigBits(a) - 53))

\* the whole number n, |n| < 2^31, and u / 4294967296 for the 32-bit word u
FromInt(n) == FRound(IF n < 0 THEN -1 ELSE 1, Big(IF n < 0 THEN -n ELSE n), 0)
FromWord(u) == FRound(1, BigOfWord(u), -32)

\* -x
FNeg(x) == IF x.m = <<>> THEN x ELSE [x EXCEPT !.s = -x.s]

\* the double nearest to s * a * 2^e + t * b * 2^e
FAddAligned(s, a, t, b, e) ==
  FRound(IF s = t \/ BigLe(b, a) THEN s ELSE t,
         IF s = t THEN BigAdd(a, b)
         ELSE IF BigLe(b, a) THEN BigSub(a, b)
         ELSE BigSub(b, a),
         e)

\* x + y.  An operand more than 55 binary places below the other is less
\* than an eighth of the other's last place and leaves it as it is.
FAdd(x, y) ==
  IF x.s = 0 \/ y.s = 0 THEN FNaN
  ELSE IF x.m = <<>> THEN y
  ELSE IF y.m = <<>> THEN x
  ELSE IF x.e - y.e > 55 THEN x
  ELSE IF y.e - x.e > 55 THEN y
  ELSE FAddAligned(x.s, BigShl(x.m, x.e - (IF x.e < y.e THEN x.e ELSE y.e)),
                   y.s, BigShl(y.m, y.e - (IF x.e < y.e THEN x.e ELSE y.e)),
                   IF x.e < y.e THEN x.e ELSE y.e)

\* x - y
FSub(x, y) == FAdd(x, FNeg(y))

\* x * y
FMul(x, y) ==
  IF x.s = 0 \/ y.s = 0 THEN FNaN
  ELSE FRound(x.s * y.s, BigMul(x.m, y.m), x.e + y.e)

\* the quotient and the remainder of a by d, 0 < d < 2^15, from limb i down
RECURSIVE BigDivScan(_, _, _, _)
BigDivScan(a, d, i, rem) ==
  IF i = 0 THEN [quot |-> <<>>, rem |-> rem]
  ELSE LET v == (rem * W16) + a[i]
           rest == BigDivScan(a, d, i - 1, v % d)
       IN  [quot |-> Append(rest.quot, v \div d), rem |-> rest.rem]

\* a whole number below 2^31 from its limbs
BigToInt(a) == BigLimb(a, 1) + (BigLimb(a, 2) * W16)

\* the quotient q and the remainder r of a * 2^(16 * limbs) by k, 0 < k < 2^15
DivSmall(a, k, limbs) ==
  Apply(LAMBDA d : [q |-> BigTrim(d.quot), r |-> Big(d.rem)],
        BigDivScan([i \in 1..limbs |-> 0] \o a, k, Len(a) + limbs, 0))

\* Fourteen more bits of a quotient by d, 2^52 <= d < 2^53, from the bits q
\* so far and the remainder r < d, both already multiplied by 2^14.  The
\* digit is estimated from the bits above 2^37 of r and of d: the estimate is
\* never above the digit and at most 2 below it, and DivCorrect adds what is
\* missing.
RECURSIVE DivCorrect(_, _, _)
DivCorrect(q, r, d) ==
  IF BigLe(d, r) THEN DivCorrect(BigAdd(q, <<1>>), BigSub(r, d), d)
  ELSE [q |-> q, r |-> r]

DivDigit(q, r, d, estimate) ==
  DivCorrect(BigAdd(q, Big(estimate)), BigSub(r, BigMul(d, Big(estimate))), d)

DivStep(q, r, d) ==
  DivDigit(q, r, d, BigToInt(BigHigh(r, 37)) \div (BigToInt(BigHigh(d, 37)) + 1))

\* k times fourteen more bits of the quotient st.q with remainder st.r
RECURSIVE DivSteps(_, _, _)
DivSteps(st, d, k) ==
  IF k = 0 THEN st
  ELSE Apply(LAMBDA next : DivSteps(next, d, k - 1),
             DivStep(BigShl(st.q, 14), BigShl(st.r, 14), d))

\* the quotient of two mantissas to 56 binary places, and the remainder
DivLarge(a, d) ==
  DivSteps(IF BigLe(d, a) THEN [q |-> <<1>>, r |-> BigSub(a, d)]
           ELSE [q |-> <<>>, r |-> a],
           d, 4)

\* the double nearest to s * d.q * 2^e, d.q cut off from a quotient with
\* remainder d.r: one more bit tells whether a remainder is left
FQuotient(s, d, e) ==
  FRound(s, BigAdd(BigAdd(d.q, d.q), IF d.r = <<>> THEN <<>> ELSE <<1>>), e - 1)

\* x / y for y # 0 or x = 0: 0 / 0 is NaN.  A divisor whose mantissa is
\* k * 2^38 (a whole number below 2^15 is one) divides limb by limb.
FDiv(x, y) ==
  IF x.s = 0 \/ y.s = 0 \/ y.m = <<>> THEN FNaN
  ELSE IF x.m = <<>> THEN FZero
  ELSE FQuotient(x.s * y.s,
                 IF BigLow(y.m, 38) = <<>>
                 THEN DivSmall(x.m, BigToInt(BigHigh(y.m, 38)), 2)
                 ELSE DivLarge(x.m, y.m),
                 (x.e - y.e) - (IF BigLow(y.m, 38) = <<>> THEN 70 ELSE 56))

\* x < y and x <= y, false when an operand is NaN
FLt(x, y) ==
  LET sx == IF x.m = <<>> THEN 0 ELSE x.s
      sy == IF y.m = <<>> THEN 0 ELSE y.s
      below(a, b) == IF a.e # b.e THEN a.e < b.e ELSE a.m # b.m /\ BigLe(a.m, b.m)
  IN  /\ x.s # 0
      /\ y.s # 0
      /\ IF sx # sy THEN sx < sy
         ELSE IF sx = 0 THEN FALSE
         ELSE IF sx = 1 THEN below(x, y)
         ELSE below(y, x)

FLe(x, y) == x.s # 0 /\ y.s # 0 /\ ~FLt(y, x)

\* Math.min(x, y) and Math.max(x, y)
FMin(x, y) == IF x.s = 0 \/ y.s = 0 THEN FNaN ELSE IF FLt(y, x) THEN y ELSE x
FMax(x, y) == IF x.s = 0 \/ y.s = 0 THEN FNaN ELSE IF FLt(x, y) THEN y ELSE x

\* the double of the decimal literal k / p, 0 < k, p < 2^15
Decimal(k, p) == FQuotient(1, DivSmall(Big(k), p, 5), -80)

\* a value passed on without the clamp
FUnclamped(val, min, max) == val

\* Math.max(min, Math.min(max, val)) of clamp(val, min, max) on doubles
FClamp(val, min, max) == FMax(min, FMin(max, val))

\* the whole part of |x| and the bits of its fraction, for |x| < 2^31 (the
\* exponent of such a double is negative, or x is zero)
FWhole(x) == BigToInt(BigHigh(x.m, -x.e))
FFraction(x) == BigLow(x.m, -x.e)

\* Math.floor(x) and Math.ceil(x) as whole numbers, for |x| < 2^31
FFloor(x) ==
  IF x.s = 1 THEN FWhole(x)
  ELSE -(FWhole(x) + (IF FFraction(x) = <<>> THEN 0 ELSE 1))

FCeil(x) ==
  IF x.s = 1 THEN FWhole(x) + (IF FFraction(x) = <<>> THEN 0 ELSE 1)
  ELSE -FWhole(x)

\* Math.round(x) as a whole number, for |x| < 2^31: the nearest whole
\* number, a half rounded towards plus infinity
FRoundHalfUp(x) ==
  IF FFraction(x) = <<>> THEN x.s * FWhole(x)
  ELSE IF x.s = 1
  THEN FWhole(x) + (IF BigLe(Pow2Big((-x.e) - 1), FFraction(x)) THEN 1 ELSE 0)
  ELSE -(FWhole(x) + (IF BigLe(FFraction(x), Pow2Big((-x.e) - 1)) THEN 0 ELSE 1))

\* x % y for a power of two y: the remainder is exact and has the sign of x
FMod(x, y) ==
  IF x.s = 0 \/ y.s = 0 \/ y.m = <<>> THEN FNaN
  ELSE IF x.m = <<>> \/ x.e >= y.e + 52 THEN FZero
  ELSE FRound(x.s, BigLow(x.m, (y.e + 52) - x.e), x.e)

\* the first k doubles of a sequence added up from the first: sum += seq[i]
RECURSIVE FSum(_, _)
FSum(seq, k) ==
  IF k = 0 THEN FZero
  ELSE Apply(LAMBDA sum : FAdd(sum, seq[k]), FSum(seq, k - 1))

\* Math.max(...seq) and Math.min(...seq) of the first k doubles, k >= 1
RECURSIVE FMaxSeq(_, _)
FMaxSeq(seq, k) ==
  IF k = 1 THEN seq[1]
  ELSE Apply(LAMBDA m : FMax(m, seq[k]), FMaxSeq(seq, k - 1))

RECURSIVE FMinSeq(_, _)
FMinSeq(seq, k) ==
  IF k = 1 THEN seq[1]
  ELSE Apply(LAMBDA m : FMin(m, seq[k]), FMinSeq(seq, k - 1))

----------------------------------------------------------------------------
(* Math.sqrt, Math.log and Math.cos of nextGaussian.  Math.sqrt is the      *)
(* correctly rounded root.  Math.log and Math.cos are the routines of the   *)
(* engine (V8, base/ieee754.cc: log, cos, __kernel_cos, __kernel_sin and    *)
(* __ieee754_rem_pio2), operation by operation in double precision, for     *)
(* the arguments nextGaussian passes: a normal x > 0 to Math.log and        *)
(* 0 <= x < 2^20 * pi / 2 to Math.cos.  A routine computes its locals one   *)
(* after the other, each into a field of a record of the locals so far.     *)

\* the double with the bit pattern of the 16-bit words h1 h0 l1 l0, highest
\* first: a normal number
FBits(h1, h0, l1, l0) ==
  [s |-> IF h1 >= 32768 THEN -1 ELSE 1,
   m |-> <<l0, l1, h0, (h1 % 16) + 16>>,
   e |-> ((h1 % 32768) \div 16) - 1075]

\* the high word of the bit pattern of |x|: eleven bits of exponent and the
\* twenty bits of the mantissa after its first
HighWord(x) ==
  IF x.m = <<>> THEN 0
  ELSE ((x.e + 1074) * 1048576) + BigToInt(BigHigh(x.m, 32))

\* the double of a high word, with a low word of zero
FHigh(hw) ==
  [s |-> 1, m |-> BigShl(Big((hw % 1048576) + 1048576), 32),
   e |-> (hw \div 1048576) - 1075]

\* plus and minus Infinity, which no operation above takes or gives
FInfinity(s) == [s |-> s, m |-> <<>>, e |-> 1]

Half == FBits(16352, 0, 0, 0)
PI == FBits(16393, 8699, 21572, 11544)

\* c[i] + z * (c[i + 1] + z * ( ... + z * c[Len(c)])), from the inside
RECURSIVE Horner(_, _, _)
Horner(z, c, i) ==
  IF i = Len(c) THEN c[i]
  ELSE FAdd(c[i], FMul(z, Horner(z, c, i + 1)))

\* k steps of Newton's iteration from y towards the root of v
RECURSIVE SqrtNewton(_, _, _)
SqrtNewton(v, y, k) ==
  IF k = 0 THEN y
  ELSE Apply(LAMBDA next : SqrtNewton(v, next, k - 1),
             FMul(Half, FAdd(y, FDiv(v, y))))

\* the whole root of a from a whole number c near it
RECURSIVE SqrtDown(_, _)
SqrtDown(a, c) ==
  IF BigLe(BigMul(c, c), a) THEN c
  ELSE Apply(LAMBDA down : SqrtDown(a, down), BigSub(c, <<1>>))

RECURSIVE SqrtUp(_, _)
SqrtUp(a, c) ==
  Apply(LAMBDA up : IF BigLe(BigMul(up, up), a) THEN SqrtUp(a, up) ELSE c,
        BigAdd(c, <<1>>))

\* the whole root of a.scaled, 2^106 <= a.scaled < 2^108: six steps of
\* Newton's iteration from 1.5 * 2^53 come within a few units of it
SqrtNear(a) ==
  [near |-> Apply(LAMBDA y : BigShl(y.m, y.e),
                  SqrtNewton(FRound(1, a.scaled, 0),
                             [s |-> 1, m |-> <<0, 0, 0, 24>>, e |-> 1], 6))] @@ a

SqrtWhole(a) ==
  [whole |-> Apply(LAMBDA down : SqrtUp(a.scaled, down),
                   SqrtDown(a.scaled, a.near))] @@ a

SqrtEnd(a) ==
  FRound(1,
         BigAdd(BigAdd(a.whole, a.whole),
                IF BigMul(a.whole, a.whole) = a.scaled THEN <<>> ELSE <<1>>),
         a.e)

\* Math.sqrt(x): the double nearest to the root, from the 54 bits of the
\* whole root of m * 2^54 (of m * 2^55 for an odd exponent) and one more bit
\* that tells whether the root is exact
SqrtOf(x) ==
  IF x.s = 0 \/ (x.s = -1 /\ x.m # <<>>) THEN FNaN
  ELSE IF x.m = <<>> THEN FZero
  ELSE Apply(SqrtEnd, Apply(SqrtWhole, Apply(SqrtNear,
         [scaled |-> BigShl(x.m, 54 + (x.e % 2)),
          e |-> ((x.e - (x.e % 2)) \div 2) - 28])))

FSqrt(x) == Apply(SqrtOf, x)

ln2_hi == FBits(16358, 11842, 65248, 0)
ln2_lo == FBits(15850, 14831, 13689, 15478)
\* Lg1 .. Lg7
Lg ==
  <<FBits(16357, 21845, 21845, 21907), FBits(16345, 39321, 39319, 64004),
    FBits(16338, 18724, 37922, 37721), FBits(16332, 29125, 7566, 30895),
    FBits(16327, 18020, 38603, 990), FBits(16323, 39433, 53368, 50847),
    FBits(16322, 61714, 57150, 21060)>>

\* x is brought to 2^k * (1 + f) with sqrt(2) / 2 < 1 + f < sqrt(2); hx is
\* the mantissa part of the high word of x
LogReduce(x) ==
  LET hx == HighWord(x) % 1048576
      i == IF hx + 614244 >= 1048576 THEN 1 ELSE 0
  IN  [hx |-> hx, k |-> (x.e + 52) + i, dk |-> FromInt((x.e + 52) + i),
       f |-> FSub([x EXCEPT !.e = -52 - i], FromInt(1))]

LogS(a) == [s |-> FDiv(a.f, FAdd(FromInt(2), a.f))] @@ a
LogZ(a) == [z |-> FMul(a.s, a.s)] @@ a
LogW(a) == [w |-> FMul(a.z, a.z)] @@ a
LogT(a) ==
  [t1 |-> FMul(a.w, Horner(a.w, <<Lg[2], Lg[4], Lg[6]>>, 1)),
   t2 |-> FMul(a.z, Horner(a.w, <<Lg[1], Lg[3], Lg[5], Lg[7]>>, 1)),
   hfsq |-> FMul(FMul(Half, a.f), a.f)] @@ a
LogR(a) == [R |-> FAdd(a.t2, a.t1)] @@ a

\* the logarithm for |f| < 2^-20: 0 for f = 0, else f - f * f * (0.5 - f / 3)
LogNear(a) ==
  [near |-> FMul(FMul(a.f, a.f),
                 FSub(Half, FMul(FBits(16341, 21845, 21845, 21845), a.f)))] @@ a

LogNearEnd(a) ==
  IF a.f.m = <<>>
  THEN IF a.k = 0 THEN FZero
       ELSE FAdd(FMul(a.dk, ln2_hi), FMul(a.dk, ln2_lo))
  ELSE IF a.k = 0 THEN FSub(a.f, a.near)
  ELSE FSub(FMul(a.dk, ln2_hi), FSub(FSub(a.near, FMul(a.dk, ln2_lo)), a.f))

\* k * ln2 + log(1 + f), log(1 + f) = 2s + s * R with the polynomial R in
\* s * s, s = f / (2 + f)
LogEnd(a) ==
  IF a.hx >= 398458 /\ a.hx <= 440401
  THEN IF a.k = 0
       THEN FSub(a.f, FSub(a.hfsq, FMul(a.s, FAdd(a.hfsq, a.R))))
       ELSE FSub(FMul(a.dk, ln2_hi),
                 FSub(FSub(a.hfsq, FAdd(FMul(a.s, FAdd(a.hfsq, a.R)),
                                        FMul(a.dk, ln2_lo))),
                      a.f))
  ELSE IF a.k = 0 THEN FSub(a.f, FMul(a.s, FSub(a.f, a.R)))
  ELSE FSub(FMul(a.dk, ln2_hi),
            FSub(FSub(FMul(a.s, FSub(a.f, a.R)), FMul(a.dk, ln2_lo)), a.f))

LogOf(a) ==
  IF (a.hx + 2) % 1048576 < 3 THEN Apply(LogNearEnd, LogNear(a))
  ELSE Apply(LogEnd, Apply(LogR, Apply(LogT, Apply(LogW, Apply(LogZ, LogS(a))))))

\* Math.log(x) for a normal x > 0
ieee754_log(x) == Apply(LogOf, Apply(LogReduce, x))

\* C1 .. C6 of __kernel_cos and S1 .. S6 of __kernel_sin
CosC ==
  <<FBits(16293, 21845, 21845, 21836), FBits(48982, 49516, 5825, 20855),
    FBits(16122, 416, 6603, 5520), FBits(48786, 32335, 32924, 21165),
    FBits(15905, 61086, 48564, 45508), FBits(48552, 64233, 48776, 14548)>>

SinS ==
  <<FBits(49093, 21845, 21845, 21833), FBits(16257, 4369, 4368, 63654),
    FBits(48938, 416, 6593, 25045), FBits(16071, 7651, 22449, 65149),
    FBits(48730, 58854, 35371, 40171), FBits(15845, 55610, 23247, 54652)>>

KernelZ(a) == [ix |-> HighWord(a.x), z |-> FMul(a.x, a.x)] @@ a

\* the polynomial r, and qx (which is read from 0.3 on only): 0.28125 above
\* 0.78125, else x / 4 cut to its high word
KernelCosR(a) ==
  [r |-> FMul(a.z, Horner(a.z, CosC, 1)),
   qx |-> IF a.ix > 1072234496 THEN FBits(16338, 0, 0, 0)
          ELSE IF a.ix >= 1070805811 THEN FHigh(a.ix - 2097152)
          ELSE FZero] @@ a

KernelCosRest(a) == [rest |-> FSub(FMul(a.z, a.r), FMul(a.x, a.y))] @@ a

KernelCosEnd(a) ==
  IF a.ix < 1044381696 THEN FromInt(1)
  ELSE IF a.ix < 1070805811
  THEN FSub(FromInt(1), FSub(FMul(Half, a.z), a.rest))
  ELSE FSub(FSub(FromInt(1), a.qx), FSub(FSub(FMul(Half, a.z), a.qx), a.rest))

\* the cosine of x + y for |x| <= pi / 4 and the tail y of x: 1 below
\* 2^-27, else 1 - (z / 2 - (z * r - x * y)) with the polynomial r in
\* z = x * x, from 0.3 on with a part qx of z / 2 taken from 1 first
kernel_cos(x, y) ==
  Apply(KernelCosEnd,
        Apply(KernelCosRest, Apply(KernelCosR, Apply(KernelZ, [x |-> x, y |-> y]))))

KernelSinR(a) ==
  [v |-> FMul(a.z, a.x), r |-> Horner(a.z, Tail(SinS), 1)] @@ a

KernelSinEnd(a) ==
  IF a.ix < 1044381696 THEN a.x
  ELSE IF a.iy = 0 THEN FAdd(a.x, FMul(a.v, FAdd(SinS[1], FMul(a.z, a.r))))
  ELSE FSub(a.x,
            FSub(FSub(FMul(a.z, FSub(FMul(Half, a.y), FMul(a.v, a.r))), a.y),
                 FMul(a.v, SinS[1])))

\* the sine of x + y for |x| <= pi / 4 and the tail y of x (iy = 0: no tail):
\* x below 2^-27
kernel_sin(x, y, iy) ==
  Apply(KernelSinEnd,
        Apply(KernelSinR, Apply(KernelZ, [x |-> x, y |-> y, iy |-> iy])))

invpio2 == FBits(16356, 24368, 28105, 51331)
\* pi / 2 in three pieces of 33 bits and the tail after each
pio2 == <<FBits(16377, 8699, 21568, 0), FBits(15824, 46177, 6752, 0),
          FBits(15267, 6538, 11776, 0)>>
pio2t == <<FBits(15824, 46177, 6754, 25393), FBits(15267, 6538, 11779, 28787),
           FBits(14715, 33690, 9504, 18881)>>

\* the high words of the multiples n * pi / 2, n = 1 .. 32
npio2_hw ==
  <<1073291771, 1074340347, 1074977148, 1075388923, 1075800698, 1076025724,
    1076231611, 1076437499, 1076643386, 1076849274, 1076971356, 1077074300,
    1077177244, 1077280187, 1077383131, 1077486075, 1077589019, 1077691962,
    1077794906, 1077897850, 1077968460, 1078019932, 1078071404, 1078122876,
    1078174348, 1078225820, 1078277292, 1078328763, 1078380235, 1078431707,
    1078483179, 1078534651>>

\* the remainder y0 = r - w of a round of the reduction
Reduced(a) == [r |-> a.r, w |-> a.w, y0 |-> FSub(a.r, a.w)]

\* the first round: r = x - fn * pio2_1, w = fn * pio2_1t
ReduceFirst(a) ==
  Reduced([r |-> FSub(a.x, FMul(a.fn, pio2[1])), w |-> FMul(a.fn, pio2t[1])])

ReduceR(a) == [r |-> FSub(a.t, a.w)] @@ a
ReduceW(a) == [r |-> a.r, w |-> FSub(a.tail, FSub(FSub(a.t, a.r), a.w))]

\* one more round: t = r; w = fn * piece; r = t - w;
\* w = fn * tail - ((t - r) - w)
ReduceMore(red, fn, piece, tail) ==
  Apply(Reduced, Apply(ReduceW, Apply(ReduceR,
    [t |-> red.r, w |-> FMul(fn, piece), tail |-> FMul(fn, tail)])))

RemN(a) == [n |-> FFloor(FAdd(FMul(a.x, invpio2), Half))] @@ a
RemFn(a) == [fn |-> FromInt(a.n)] @@ a
RemFirst(a) == [first |-> ReduceFirst(a)] @@ a
RemSecond(a) == [second |-> ReduceMore(a.first, a.fn, pio2[2], pio2t[2])] @@ a
RemThird(a) == [third |-> ReduceMore(a.second, a.fn, pio2[3], pio2t[3])] @@ a

\* the bits lost by a round: the exponent of x less that of y0
RemLost(a, red) == (a.ix \div 1048576) - (HighWord(red.y0) \div 1048576)

RemDone(n, red) ==
  [n |-> n, y0 |-> red.y0, y1 |-> FSub(FSub(red.r, red.y0), red.w)]

\* the rounds of pi / 2 <= x: the first is enough away from the multiples
\* n * pi / 2, n < 32, and when it loses at most 16 bits; the second when it
\* loses at most 49
RemMedium(a) ==
  IF a.n < 32 /\ a.ix # npio2_hw[a.n] THEN RemDone(a.n, a.first)
  ELSE IF RemLost(a, a.first) <= 16 THEN RemDone(a.n, a.first)
  ELSE IF RemLost(a, a.second) <= 49 THEN RemDone(a.n, a.second)
  ELSE RemDone(a.n, a.third)

\* x < 3 * pi / 4: n = 1 and z = x - pio2_1, less pio2_2 when x and pi / 2
\* have the same high word
RemNear(a) ==
  IF a.ix # 1073291771
  THEN RemDone(1, Reduced([r |-> a.z, w |-> pio2t[1]]))
  ELSE Apply(LAMBDA z2 : RemDone(1, Reduced([r |-> z2, w |-> pio2t[2]])),
             FSub(a.z, pio2[2]))

RemOf(a) ==
  IF a.ix <= 1072243195 THEN [n |-> 0, y0 |-> a.x, y1 |-> FZero]
  ELSE IF a.ix < 1073928572 THEN RemNear([z |-> FSub(a.x, pio2[1])] @@ a)
  ELSE Apply(RemMedium, Apply(RemThird, Apply(RemSecond, Apply(RemFirst,
         Apply(RemFn, RemN(a))))))

\* the remainder of x by pi / 2 for 0 <= x < 2^20 * pi / 2: the multiple n
\* and the remainder y0 + y1
rem_pio2(x) == Apply(RemOf, Apply(LAMBDA v : [x |-> v, ix |-> HighWord(v)], x))

CosOf(y) ==
  CASE y.n % 4 = 0 -> kernel_cos(y.y0, y.y1)
    [] y.n % 4 = 1 -> FNeg(kernel_sin(y.y0, y.y1, 1))
    [] y.n % 4 = 2 -> FNeg(kernel_cos(y.y0, y.y1))
    [] OTHER -> kernel_sin(y.y0, y.y1, 1)

\* Math.cos(x) for 0 <= x < 2^20 * pi / 2
ieee754_cos(x) ==
  Apply(LAMBDA v : IF HighWord(v) <= 1072243195 THEN kernel_cos(v, FZero)
                   ELSE Apply(CosOf, rem_pio2(v)),
        x)

----------------------------------------------------------------------------
(* src/audio/procedural.ts: scales, Markov melody, genetic algorithm *)

\* An optional field of a star (temp, mag, dist, ...) that is undefined is
\* a field the record does not have; an optional argument is the sequence of
\* the value given, <<>> when the call is made without it.

\* star.field ?? default
OrElse(s, field, default) == IF field \in DOMAIN s THEN s[field] ELSE default

\* the field of a star record for an optional value: no field for <<>>
Optional(field, value) == IF value = <<>> THEN <<>> ELSE field :> value[1]

SCALES ==
  [lydian     |-> [name |-> "Lydian",     intervals |-> <<0, 2, 4, 6, 7, 9, 11>>],
   major      |-> [name |-> "Major",      intervals |-> <<0, 2, 4, 5, 7, 9, 11>>],
   mixolydian |-> [name |-> "Mixolydian", intervals |-> <<0, 2, 4, 5, 7, 9, 10>>],
   dorian     |-> [name |-> "Dorian",     intervals |-> <<0, 2, 3, 5, 7, 9, 10>>],
   aeolian    |-> [name |-> "Aeolian",    intervals |-> <<0, 2, 3, 5, 7, 8, 10>>],
   phrygian   |-> [name |-> "Phrygian",   intervals |-> <<0, 1, 3, 5, 7, 8, 10>>],
   locrian    |-> [name |-> "Locrian",    intervals |-> <<0, 1, 3, 5, 6, 8, 10>>],
   pentatonic |-> [name |-> "Pentatonic", intervals |-> <<0, 2, 4, 7, 9>>],
   wholeTone  |-> [name |-> "Whole Tone", intervals |-> <<0, 2, 4, 6, 8, 10>>]]

\* the values of intervalWeights for |interval| = 0 .. 5, and 0.01
intervalWeightValues ==
  << Decimal(1, 10), Decimal(25, 100), Decimal(15, 100), Decimal(8, 100),
     Decimal(5, 100), Decimal(3, 100), Decimal(1, 100) >>

\* intervalWeights[interval] ?? 0.01
intervalWeights(interval) ==
  intervalWeightValues[(IF Abs(interval) > 5 THEN 6 ELSE Abs(interval)) + 1]

\* the literal 0.05 of baseWeight + random() * 0.05
weightVariation == Decimal(5, 100)

\* weight = baseWeight + random() * 0.05 for random() = u / 2^32
WeightOf(baseWeight, u) == FAdd(baseWeight, FMul(FromWord(u), weightVariation))

\* a weight left as it is
Unnormalized(weight, totalWeight) == weight

\* weight / totalWeight
Normalize(weight, totalWeight) == FDiv(weight, totalWeight)

\* buildTransitionMatrix(scale, random) with random in state t: consumes n * n
\* calls; row from + 1 holds the probabilities of the degrees 0 .. n - 1
buildTransitionMatrix(scale, t) ==
  LET n == Len(scale.intervals)
  IN  [from \in 1..n |->
         Apply(LAMBDA toProbs :
                 Apply(LAMBDA totalWeight :
                         [to \in 1..n |-> Normalize(toProbs[to], totalWeight)],
                       FSum(toProbs, n)),
               [to \in 1..n |->
                  WeightOf(intervalWeights(to - from), Draw(t, ((from - 1) * n) + to))])]

\* the loop of markovNextNote over the entries of one row, from entry k on:
\* cumulative += prob; if (r <= cumulative) return nextDegree
RECURSIVE MarkovScan(_, _, _, _)
MarkovScan(transitions, r, k, cumulative) ==
  IF k > Len(transitions) THEN 0   \* fallback to root
  ELSE Apply(LAMBDA c : IF FLe(r, c) THEN k - 1
                        ELSE MarkovScan(transitions, r, k + 1, c),
             FAdd(cumulative, transitions[k]))

\* markovNextNote(currentDegree, matrix, random) where random() returns u
markovNextNote(currentDegree, matrix, u) ==
  IF currentDegree + 1 \notin DOMAIN matrix THEN 0
  ELSE MarkovScan(matrix[currentDegree + 1], FromWord(u), 1, FZero)

\* the first i iterations of the loop of generateMarkovPhrase: the notes
\* pushed and currentDegree afterwards.  Call 1 picks the start degree,
\* calls 2i and 2i + 1 are iteration i's octave shift and transition.
RECURSIVE MarkovWalk(_, _, _, _)
MarkovWalk(config, matrix, t, i) ==
  LET n == Len(config.scale.intervals)
  IN  IF i = 0
      THEN [notes |-> <<>>, deg |-> <<0, 2, 4>>[FloorMul(Draw(t, 1), 3) + 1] % n]
      ELSE LET prev == MarkovWalk(config, matrix, t, i - 1)
               octaveShift == FloorMul(Draw(t, 2 * i), config.octaveRange) - 1
               interval == config.scale.intervals[prev.deg + 1]
               note == config.baseNote + interval + (octaveShift * 12)
           IN  [notes |-> Append(prev.notes, clamp(note, 24, 96)),
                deg |-> markovNextNote(prev.deg, matrix, Draw(t, (2 * i) + 1))]

\* generateMarkovPhrase(config, matrix, random, length): 1 + 2 * length calls
generateMarkovPhrase(config, matrix, t, length) ==
  MarkovWalk(config, matrix, t, length).notes

GA_POPULATION_SIZE == 12
GA_GENERATIONS == 8
\* GA_MUTATION_RATE and GA_CROSSOVER_RATE in thousandths
GA_MUTATION_RATE == 150
GA_CROSSOVER_RATE == 700

\* durations are held in quarter beats: 0.25, 0.5, 0.75, 1, 1.5, 2
durationOptions == <<1, 2, 3, 4, 6, 8>>
\* the running sums of weights = [0.1, 0.3, 0.15, 0.25, 0.1, 0.1], thousandths
durationCumulative == <<100, 400, 550, 800, 900, 1000>>

RECURSIVE PickDuration(_, _)
PickDuration(u, j) ==
  IF j > Len(durationOptions) THEN 4   \* let duration = 1
  ELSE IF LeMilli(u, durationCumulative[j]) THEN durationOptions[j]
  ELSE PickDuration(u, j + 1)

\* generateDurations(length, random): length calls
generateDurations(length, t) == [i \in 1..length |-> PickDuration(Draw(t, i), 1)]

\* the literals of generateVelocities and of the velocity mutation
velocityLiterals ==
  [downbeat |-> Decimal(7, 10), offbeat |-> Decimal(5, 10), half |-> Decimal(5, 10),
   spread |-> Decimal(3, 10), mutation |-> Decimal(2, 10),
   min |-> Decimal(2, 10), max |-> FromInt(1)]

\* clamp(velocity + (random() - 0.5) * spread, 0.2, 1.0) for random() =
\* u / 2^32, with the literals L
VelocityOf(L, velocity, u, spread) ==
  FClamp(FAdd(velocity, FMul(FSub(FromWord(u), L.half), spread)), L.min, L.max)

\* generateVelocities(length, random): length calls
generateVelocities(length, t) ==
  Apply(LAMBDA L :
          [i \in 1..length |->
             VelocityOf(L, IF (i - 1) % 4 = 0 THEN L.downbeat ELSE L.offbeat,
                        Draw(t, i), L.spread)],
        velocityLiterals)

\* the literals of evaluateFitness
fitnessLiterals ==
  [step |-> FromInt(1), skip |-> Decimal(7, 10), larger |-> Decimal(4, 10),
   leap |-> Decimal(1, 10), smoothness |-> FromInt(30), consonance |-> FromInt(25),
   contourMin |-> Decimal(2, 10), contourMax |-> Decimal(6, 10),
   hundred |-> FromInt(100), contour |-> Decimal(2, 10), four |-> FromInt(4),
   ten |-> FromInt(10), bonus |-> FromInt(5)]

\* The terms that evaluateFitness(phrase, config) adds to fitness, in the
\* order of its statements, on the contents of the phrase's arrays and with
\* the literals L; every operation is rounded as a double.  For n = 2 the
\* contour score is clamp(0 / 0, 0.2, 0.6) * 100 = NaN.
FitnessTerms(notes, durations, velocities, config, L) ==
  LET n == Len(notes)
      step(i) == Abs(notes[i] - notes[i - 1])
      dir(i) == Sign(notes[i] - notes[i - 1])
      consonantIntervals == {0, 3, 4, 5, 7, 8, 9, 12}
  IN  << \* 1. melodic smoothness: (smoothness / (n - 1)) * 30
         FMul(FDiv(FSum([i \in 1..(n - 1) |->
                           IF step(i + 1) <= 2 THEN L.step
                           ELSE IF step(i + 1) <= 4 THEN L.skip
                           ELSE IF step(i + 1) <= 7 THEN L.larger
                           ELSE L.leap],
                        n - 1),
                   FromInt(n - 1)),
              L.smoothness),
         \* 2. consonance: (consonance / (n - 1)) * 25
         FMul(FDiv(FromInt(Cardinality({i \in 2..n : (step(i) % 12) \in consonantIntervals})),
                   FromInt(n - 1)),
              L.consonance),
         \* 3. contour variety: contourScore * 0.2
         FMul(FMul(FClamp(FDiv(FromInt(Cardinality({i \in 3..n :
                                          dir(i - 1) # dir(i) /\ dir(i - 1) # 0 /\ dir(i) # 0})),
                               FromInt(n - 2)),
                          L.contourMin, L.contourMax),
                   L.hundred),
              L.contour),
         \* 4. rhythmic variety: (uniqueDurations / 4) * 10
         FMul(FDiv(FromInt(Cardinality(Range(durations))), L.four), L.ten),
         \* 5. dynamic expression: velocityRange * 10
         FMul(FSub(FMaxSeq(velocities, Len(velocities)), FMinSeq(velocities, Len(velocities))),
              L.ten) >>
      \* 6. resolution tendency: rootDistance is 0, 7 or 4
      \o (IF JsMod(notes[n] - config.baseNote, 12) \in {0, 7, 4} THEN <<L.bonus>> ELSE <<>>)

\* evaluateFitness(phrase, config): fitness = 0 and fitness += term for each
\* term; 0 for a phrase of fewer than two notes
evaluateFitness(notes, durations, velocities, config) ==
  IF Len(notes) < 2 THEN FZero
  ELSE Apply(LAMBDA terms : FSum(terms, Len(terms)),
             FitnessTerms(notes, durations, velocities, config, fitnessLiterals))

\* a > b on fitness values (false when either is NaN)
FitGt(a, b) == FLt(b, a)

\* the winner of a tournament between population[idx[1]], [idx[2]], [idx[3]]
Winner(population, idx) ==
  LET b1 == idx[1]
      b2 == IF FitGt(population[idx[2]].fitness, population[b1].fitness) THEN idx[2] ELSE b1
  IN  IF FitGt(population[idx[3]].fitness, population[b2].fitness) THEN idx[3] ELSE b2

\* tournamentSelect(population, random): 3 calls; the index of the winner
tournamentSelect(population, t) ==
  LET picks == [k \in 1..3 |-> FloorMul(Draw(t, k), Len(population)) + 1]
      winner(idx) == Winner(population, idx)
  IN  Apply(winner, picks)

\* The comparator (a, b) => b.fitness - a.fitness as Array.prototype.sort
\* reads it: the sign of the difference, and 0 when the difference is NaN.
Compare(a, b) ==
  IF FLt(a.fitness, b.fitness) THEN 1
  ELSE IF FLt(b.fitness, a.fitness) THEN -1
  ELSE 0

\* The sort of V8 for an array of fewer than 64 elements: the run at the
\* start of the array is found, reversed when it descends under the
\* comparator, and the other elements are inserted into it one by one at the
\* place a binary search finds.
\* RunScan: the length of the run, from the element at index idx on.
RECURSIVE RunScan(_, _, _)
RunScan(work, idx, isDescending) ==
  IF idx > Len(work) THEN Len(work)
  \* order >= 0 ends a descending run, order < 0 an ascending one
  ELSE IF isDescending = (Compare(work[idx], work[idx - 1]) >= 0) THEN idx - 1
  ELSE RunScan(work, idx + 1, isDescending)

\* the run of runLength elements at the start of work, reversed when it
\* descends
MakeRun(work, isDescending, runLength) ==
  [runLength |-> runLength,
   work |-> IF isDescending
            THEN [i \in DOMAIN work |->
                    IF i <= runLength THEN work[(runLength + 1) - i] ELSE work[i]]
            ELSE work]

CountRun(work, isDescending) ==
  MakeRun(work, isDescending, RunScan(work, 3, isDescending))

CountAndMakeRun(work) == CountRun(work, Compare(work[2], work[1]) < 0)

\* the place of pivot among the sorted elements left + 1 .. right
RECURSIVE BinarySearch(_, _, _, _)
BinarySearch(work, pivot, left, right) ==
  IF left >= right THEN left
  ELSE LET mid == left + ((right - left) \div 2)
       IN  IF Compare(pivot, work[mid + 1]) < 0
           THEN BinarySearch(work, pivot, left, mid)
           ELSE BinarySearch(work, pivot, mid + 1, right)

\* the pivot work[start + 1] moved to the place after the first left elements
Insert(work, start, left) ==
  [i \in DOMAIN work |->
     IF i <= left THEN work[i]
     ELSE IF i = left + 1 THEN work[start + 1]
     ELSE IF i <= start + 1 THEN work[i - 1]
     ELSE work[i]]

\* the elements from index start + 1 on inserted into the sorted elements
\* before them
RECURSIVE BinaryInsertionSort(_, _)
BinaryInsertionSort(work, start) ==
  IF start >= Len(work) THEN work
  ELSE Apply(LAMBDA next : BinaryInsertionSort(next, start + 1),
             Insert(work, start, BinarySearch(work, work[start + 1], 0, start)))

\* population.sort((a, b) => b.fitness - a.fitness)
SortByFitness(pop) ==
  IF Len(pop) < 2 THEN pop
  ELSE Apply(LAMBDA run : BinaryInsertionSort(run.work, run.runLength),
             CountAndMakeRun(pop))

\* findClosestDegree(note, config)
RECURSIVE ClosestScan(_, _, _, _, _)
ClosestScan(intervals, interval, i, closest, minDist) ==
  IF i > Len(intervals) THEN closest
  ELSE LET dist == Abs(intervals[i] - interval)
       IN  IF dist < minDist
           THEN ClosestScan(intervals, interval, i + 1, i - 1, dist)
           ELSE ClosestScan(intervals, interval, i + 1, closest, minDist)

findClosestDegree(note, config) ==
  ClosestScan(config.scale.intervals, JsMod(note - config.baseNote, 12), 1, 0, 12)

\* MutatedNote without the final clamp(phrase.notes[i], 24, 96)
MutatedNoteUnclamped(note, f, config) ==
  LET currentDegree == findClosestDegree(note, config)
      newDegree == clamp(currentDegree + (f - 1), 0, Len(config.scale.intervals) - 1)
      octaveShift == (note - config.baseNote) \div 12
  IN  config.baseNote + config.scale.intervals[newDegree + 1] + (octaveShift * 12)

\* the note written by a pitch mutation of `note` when floor(random() * 3) = f
MutatedNote(note, f, config) ==
  LET shift == f - 1
      currentDegree == findClosestDegree(note, config)
      newDegree == clamp(currentDegree + shift, 0, Len(config.scale.intervals) - 1)
      octaveShift == (note - config.baseNote) \div 12   \* Math.floor
  IN  clamp(config.baseNote + config.scale.intervals[newDegree + 1] + (octaveShift * 12), 24, 96)

\* The three statements of one iteration of the loop of mutate, on a record
\* s of the phrase's arrays and the state t of random.
MutatePitch(s, i, config) ==
  IF LtMilli(Draw(s.t, 1), GA_MUTATION_RATE)
  THEN [s EXCEPT !.notes[i] = MutatedNote(@, FloorMul(Draw(s.t, 2), 3), config),
                 !.t = Skip(@, 2)]
  ELSE [s EXCEPT !.t = Skip(@, 1)]

MutateDuration(s, i) ==
  IF LtMilli(Draw(s.t, 1), GA_MUTATION_RATE \div 2)
  THEN [s EXCEPT !.durations[i] =
                    durationOptions[FloorMul(Draw(s.t, 2), Len(durationOptions)) + 1],
                 !.t = Skip(@, 2)]
  ELSE [s EXCEPT !.t = Skip(@, 1)]

MutateVelocity(s, i) ==
  IF LtMilli(Draw(s.t, 1), (GA_MUTATION_RATE * 3) \div 10)
  THEN [s EXCEPT !.velocities[i] =
                    Apply(LAMBDA L : VelocityOf(L, s.velocities[i], Draw(s.t, 2), L.mutation),
                          velocityLiterals),
                 !.t = Skip(@, 2)]
  ELSE [s EXCEPT !.t = Skip(@, 1)]

\* one iteration of the loop of mutate(phrase, config, random) on note i:
\* 3 to 6 calls of random
MutateAt(notes, durations, velocities, i, config, t) ==
  LET pitch(s) == MutatePitch(s, i, config)
      duration(s) == MutateDuration(s, i)
      velocity(s) == MutateVelocity(s, i)
  IN  Apply(velocity, Apply(duration, Apply(pitch,
        [notes |-> notes, durations |-> durations, velocities |-> velocities, t |-> t])))

\* CHORD_TRANSITIONS: for each degree 0..6 (row degree + 1) the next degrees
\* with the running sum of their weights in thousandths
CHORD_TRANSITIONS ==
  << <<<<0, 100>>, <<3, 400>>, <<4, 750>>, <<5, 950>>, <<1, 1000>>>>,
     <<<<4, 600>>, <<6, 800>>, <<0, 900>>, <<3, 1000>>>>,
     <<<<5, 400>>, <<3, 700>>, <<1, 900>>, <<0, 1000>>>>,
     <<<<4, 400>>, <<0, 650>>, <<1, 850>>, <<5, 1000>>>>,
     <<<<0, 650>>, <<5, 850>>, <<3, 950>>, <<2, 1000>>>>,
     <<<<1, 350>>, <<3, 650>>, <<4, 850>>, <<2, 1000>>>>,
     <<<<0, 700>>, <<2, 850>>, <<5, 1000>>>> >>

qualityMap == <<"maj", "min", "min", "maj", "maj", "min", "dim">>

RECURSIVE ChordScan(_, _, _, _)
ChordScan(transitions, u, k, currentDegree) ==
  IF k > Len(transitions) THEN currentDegree
  ELSE IF LeMilli(u, transitions[k][2]) THEN transitions[k][1]
  ELSE ChordScan(transitions, u, k + 1, currentDegree)

\* the first i iterations of the loop of generateChordProgression; calls
\* 2i - 1 and 2i are iteration i's duration and transition
RECURSIVE ChordWalk(_, _, _)
ChordWalk(config, t, i) ==
  IF i = 0
  THEN [roots |-> <<>>, qualities |-> <<>>, durations |-> <<>>, deg |-> 0]
  ELSE LET prev == ChordWalk(config, t, i - 1)
           n == Len(config.scale.intervals)
           interval == config.scale.intervals[(prev.deg % n) + 1]
       IN  [roots |-> Append(prev.roots, config.baseNote + interval),
            qualities |-> Append(prev.qualities, qualityMap[(prev.deg % 7) + 1]),
            durations |-> Append(prev.durations, 1 + FloorMul(Draw(t, (2 * i) - 1), 2)),
            deg |-> ChordScan(CHORD_TRANSITIONS[prev.deg + 1], Draw(t, 2 * i), 1, prev.deg)]

\* a progression without its opening chord
progressionAfterFirst(config, t, length) ==
  LET w == ChordWalk(config, t, length)
  IN  [roots |-> Tail(w.roots), qualities |-> Tail(w.qualities),
       durations |-> Tail(w.durations)]

\* generateChordProgression(config, random, length): 2 * length calls
generateChordProgression(config, t, length) ==
  LET w == ChordWalk(config, t, length)
  IN  [roots |-> w.roots, qualities |-> w.qualities, durations |-> w.durations]

selectScaleFromTemperature(temp) ==
  IF temp > 15000 THEN SCALES.lydian
  ELSE IF temp > 10000 THEN SCALES.major
  ELSE IF temp > 7500 THEN SCALES.mixolydian
  ELSE IF temp > 6000 THEN SCALES.dorian
  ELSE IF temp > 5000 THEN SCALES.pentatonic
  ELSE IF temp > 4000 THEN SCALES.aeolian
  ELSE IF temp > 3500 THEN SCALES.phrygian
  ELSE SCALES.locrian

\* the GeneratorConfig derived in generateProceduralMusic; star.mag and
\* config.magnitude are in tenths
StarConfig(s) ==
  LET temp == OrElse(s, "temp", 5800)
      mag == clamp(s.mag10, -20, 100)
      dist == OrElse(s, "dist", 10)
  IN  [scale |-> selectScaleFromTemperature(temp),
       \* Math.round(48 + ((temp - 3000) / (12000 - 3000)) * 12)
       baseNote |-> (72000 + (2 * (temp - 3000)) + 750) \div 1500,
       octaveRange |-> 2,
       \* 8 + Math.floor((1 - mag / 10) * 8)
       phraseLength |-> 8 + ((800 - (8 * mag)) \div 100),
       temperature |-> temp,
       magnitude |-> mag,
       distance |-> dist]

\* config, harmonyConfig and bassConfig of generateProceduralMusic
StageConfig(s, stg) ==
  LET config == StarConfig(s)
  IN  IF stg = "harmony"
      THEN [config EXCEPT !.baseNote = @ + 12, !.phraseLength = 4]
      ELSE IF stg = "bass"
      THEN [config EXCEPT !.baseNote = @ - 12, !.phraseLength = 4, !.octaveRange = 1]
      ELSE config

\* the generations argument of the three evolvePopulation calls
StageGenerations(stg) == IF stg = "melody" THEN GA_GENERATIONS ELSE 4

\* ---------------------------------------------------------------------
\* generateProceduralMusic as a state machine.  A phrase is a record of the
\* identities of its three arrays and its fitness; heap maps an array
\* identity to the array's contents, so that { ...phrase, fitness: 0 }
\* yields a phrase holding the same arrays.
\* ---------------------------------------------------------------------

\* One behaviour makes two calls of generateProceduralMusic, "first" and then
\* "second", with the same arguments.

\* the stars of the calls: an A-type star of magnitude 6.0 and an O-type
\* star of magnitude 10
Stars ==
  { [temp |-> 10000, mag10 |-> 60],
    [temp |-> 30000, mag10 |-> 100, dist |-> 50] }

\* the seed arguments; <<>> is a call without the seed argument
SeedArgs == {<<42>>, <<43>>, <<>>}

\* Math.random() of the default argument: the states createRNG computes for
\* two of the values it may return, Math.floor(seed * 0xffffffff) for
\* seed = 0.25 and seed = 0.5
MathRandomStates == { <<65535, 16383>>, <<65535, 32767>> }

VARIABLES star, seedArg, call, pc, stage, rng, matrix, harmonyMatrix, heap,
          nextId, currentPop, newPop, gen, offspring, mi, elite, initialBest,
          out, results

\* the state of a call of generateEnoAmbient (eno), of generatePatternFromStar
\* (pat) and of the audio engine (eng); each is Idle in the behaviours of the
\* other specifications
VARIABLES eno, pat, eng

vars == <<star, seedArg, call, pc, stage, rng, matrix, harmonyMatrix, heap,
          nextId, currentPop, newPop, gen, offspring, mi, elite, initialBest,
          out, results, eno, pat, eng>>

others == <<eno, pat, eng>>

Idle == [pc |-> "idle"]

NoPhrase == [notes |-> 0, durations |-> 0, velocities |-> 0, fitness |-> FZero]

\* the contents of the arrays phrase p holds, in heap h
Content(h, p) ==
  [notes |-> h[p.notes], durations |-> h[p.durations], velocities |-> h[p.velocities]]

\* the identities of the arrays held by the phrases of a list
ArraysOf(pop) ==
  UNION { {pop[i].notes, pop[i].durations, pop[i].velocities} : i \in DOMAIN pop }

\* for (const phrase of currentPop) phrase.fitness = evaluateFitness(phrase, config)
Evaluated(pop, h, config) ==
  [i \in DOMAIN pop |->
     [pop[i] EXCEPT !.fitness = evaluateFitness(h[pop[i].notes], h[pop[i].durations],
                                                h[pop[i].velocities], config)]]

StageMatrix == IF stage = "harmony" THEN harmonyMatrix ELSE matrix

\* the variables of generateProceduralMusic before its first call with star
\* s and seed argument sd, at control point p
ProceduralStart(s, sd, p) ==
  /\ star = s
  /\ seedArg = sd
  /\ call = "first"
  /\ pc = p
  /\ stage = "melody"
  /\ rng = <<>>
  /\ matrix = <<>>
  /\ harmonyMatrix = <<>>
  /\ heap = <<>>
  /\ nextId = 1
  /\ currentPop = <<>>
  /\ newPop = <<>>
  /\ gen = 0
  /\ offspring = NoPhrase
  /\ mi = 0
  /\ elite = <<>>
  /\ initialBest = FZero
  /\ out = <<>>
  /\ results = <<>>

\* generateProceduralMusic is not called
ProceduralIdle ==
  ProceduralStart([mag10 |-> 0], <<>>, "idle")

Init ==
  /\ \E s \in Stars, sd \in SeedArgs : ProceduralStart(s, sd, "call")
  /\ eno = Idle /\ pat = Idle /\ eng = Idle

\* the states of const random = createRNG(seed), seed: number = Math.random()
SeedStates ==
  IF seedArg = <<>> THEN MathRandomStates ELSE {createRNG(seedArg[1])}

\* entry of generateProceduralMusic(star, seed): createRNG(seed), config,
\* matrix = buildTransitionMatrix(config.scale, random)
Call ==
  /\ pc = "call"
  /\ \E t0 \in SeedStates :
       LET config == StarConfig(star)
           n == Len(config.scale.intervals)
       IN  /\ matrix' = buildTransitionMatrix(config.scale, t0)
           /\ rng' = Skip(t0, n * n)
  /\ pc' = "init"
  /\ stage' = "melody"
  /\ currentPop' = <<>>
  /\ heap' = <<>>
  /\ nextId' = 1
  /\ out' = <<>>
  /\ UNCHANGED others
  /\ UNCHANGED <<star, seedArg, call, harmonyMatrix, newPop, gen, offspring, mi,
                 elite, initialBest, results>>

\* one iteration of the loop of initializePopulation; after the last one
\* evolvePopulation starts with gen = 0
InitPhrase ==
  /\ pc = "init"
  /\ LET config == StageConfig(star, stage)
         L == config.phraseLength
         t1 == Skip(rng, 1 + (2 * L))
         t2 == Skip(t1, L)
         p == [notes |-> nextId, durations |-> nextId + 1, velocities |-> nextId + 2,
               fitness |-> FZero]
     IN  /\ heap' = heap @@ (nextId :> generateMarkovPhrase(config, StageMatrix, rng, L))
                         @@ ((nextId + 1) :> generateDurations(L, t1))
                         @@ ((nextId + 2) :> generateVelocities(L, t2))
         /\ rng' = Skip(t2, L)
         /\ currentPop' = Append(currentPop, p)
  /\ nextId' = nextId + 3
  /\ pc' = IF Len(currentPop) + 1 = GA_POPULATION_SIZE THEN "gen" ELSE "init"
  /\ gen' = 0
  /\ UNCHANGED others
  /\ UNCHANGED <<star, seedArg, call, stage, matrix, harmonyMatrix, newPop, offspring,
                 mi, elite, initialBest, out, results>>

\* the top of one generation of evolvePopulation: evaluate, sort, and push
\* the two elites, { ...currentPop[0], fitness: 0 } and the same of [1]
EvaluateAndSort ==
  /\ pc = "gen"
  /\ \E sorted \in {SortByFitness(Evaluated(currentPop, heap, StageConfig(star, stage)))} :
         /\ currentPop' = sorted
         /\ newPop' = << [sorted[1] EXCEPT !.fitness = FZero], [sorted[2] EXCEPT !.fitness = FZero] >>
         /\ elite' = << Content(heap, sorted[1]), Content(heap, sorted[2]) >>
         /\ initialBest' = IF gen = 0 THEN sorted[1].fitness ELSE initialBest
  /\ pc' = "breed"
  /\ UNCHANGED others
  /\ UNCHANGED <<star, seedArg, call, stage, rng, matrix, harmonyMatrix, heap, nextId,
                 gen, offspring, mi, out, results>>

\* crossover(parent1, parent2, random) in heap h with random in state t and
\* id the next free array identity: the offspring, the heap and the state of
\* random afterwards
crossover(parent1, parent2, h, id, t) ==
  IF ~LeMilli(Draw(t, 1), GA_CROSSOVER_RATE)
  THEN [phrase |-> [parent1 EXCEPT !.fitness = FZero], heap |-> h, nextId |-> id,
        t |-> Skip(t, 1)]
  ELSE LET cut(a, b, point) == SubSeq(h[a], 1, point) \o SubSeq(h[b], point + 1, Len(h[b]))
           child(point) ==
             [phrase |-> [notes |-> id, durations |-> id + 1, velocities |-> id + 2,
                          fitness |-> FZero],
              heap |-> h @@ (id :> cut(parent1.notes, parent2.notes, point))
                         @@ ((id + 1) :> cut(parent1.durations, parent2.durations, point))
                         @@ ((id + 2) :> cut(parent1.velocities, parent2.velocities, point)),
              nextId |-> id + 3,
              t |-> Skip(t, 2)]
       IN  Apply(child, FloorMul(Draw(t, 2), Len(h[parent1.notes])))

\* the first three statements of the while loop: two tournaments, crossover
Breed ==
  /\ pc = "breed"
  /\ \E parent1 \in {currentPop[tournamentSelect(currentPop, rng)]} :
     \E parent2 \in {currentPop[tournamentSelect(currentPop, Skip(rng, 3))]} :
     \E c \in {crossover(parent1, parent2, heap, nextId, Skip(rng, 6))} :
         /\ offspring' = c.phrase
         /\ heap' = c.heap
         /\ nextId' = c.nextId
         /\ rng' = c.t
  /\ mi' = 1
  /\ pc' = "mutate"
  /\ UNCHANGED others
  /\ UNCHANGED <<star, seedArg, call, stage, matrix, harmonyMatrix, currentPop, newPop,
                 gen, elite, initialBest, out, results>>

\* one iteration of the loop of mutate(offspring, config, random), writing
\* through the arrays the offspring holds; after the last one
\* newPop.push(offspring)
MutateNote ==
  /\ pc = "mutate"
  /\ \E r \in {MutateAt(heap[offspring.notes], heap[offspring.durations],
                        heap[offspring.velocities], mi, StageConfig(star, stage), rng)} :
         /\ heap' = [heap EXCEPT ![offspring.notes] = r.notes,
                                 ![offspring.durations] = r.durations,
                                 ![offspring.velocities] = r.velocities]
         /\ rng' = r.t
  /\ IF mi < Len(heap[offspring.notes])
     THEN /\ mi' = mi + 1
          /\ pc' = "mutate"
          /\ newPop' = newPop
     ELSE /\ mi' = 0
          /\ newPop' = Append(newPop, offspring)
          /\ pc' = IF Len(newPop) + 1 < GA_POPULATION_SIZE THEN "breed" ELSE "swap"
  /\ UNCHANGED others
  /\ UNCHANGED <<star, seedArg, call, stage, matrix, harmonyMatrix, nextId, currentPop,
                 gen, offspring, elite, initialBest, out, results>>

\* currentPop = newPop at the end of one generation; arrays no phrase holds
\* any more are dropped
Swap ==
  /\ pc = "swap"
  /\ currentPop' = newPop
  /\ newPop' = <<>>
  /\ heap' = [id \in ArraysOf(newPop) |-> heap[id]]
  /\ gen' = gen + 1
  /\ pc' = IF gen + 1 < StageGenerations(stage) THEN "gen" ELSE "final"
  /\ UNCHANGED others
  /\ UNCHANGED <<star, seedArg, call, stage, rng, matrix, harmonyMatrix, nextId,
                 offspring, mi, elite, initialBest, out, results>>

\* the final evaluation and sort of evolvePopulation; currentPop is the
\* population it returns
FinalEvaluation ==
  /\ pc = "final"
  /\ currentPop' = SortByFitness(Evaluated(currentPop, heap, StageConfig(star, stage)))
  /\ pc' = "return"
  /\ UNCHANGED others
  /\ UNCHANGED <<star, seedArg, call, stage, rng, matrix, harmonyMatrix, heap, nextId,
                 newPop, gen, offspring, mi, elite, initialBest, out, results>>

\* bestMelody = evolvedMelody[0], then harmonyMatrix is built
BestMelody ==
  /\ pc = "return" /\ stage = "melody"
  /\ out' = [melody |-> Content(heap, currentPop[1])]
  /\ LET scale == StarConfig(star).scale
     IN  /\ harmonyMatrix' = buildTransitionMatrix(scale, rng)
         /\ rng' = Skip(rng, Len(scale.intervals) * Len(scale.intervals))
  /\ stage' = "harmony"
  /\ pc' = "init"
  /\ currentPop' = <<>>
  /\ heap' = <<>>
  /\ nextId' = 1
  /\ UNCHANGED others
  /\ UNCHANGED <<star, seedArg, call, matrix, newPop, gen, offspring, mi, elite,
                 initialBest, results>>

\* bestHarmony = evolvedHarmony[0]
BestHarmony ==
  /\ pc = "return" /\ stage = "harmony"
  /\ out' = [melody |-> out.melody, harmony |-> Content(heap, currentPop[1])]
  /\ stage' = "bass"
  /\ pc' = "init"
  /\ currentPop' = <<>>
  /\ heap' = <<>>
  /\ nextId' = 1
  /\ UNCHANGED others
  /\ UNCHANGED <<star, seedArg, call, rng, matrix, harmonyMatrix, newPop, gen, offspring,
                 mi, elite, initialBest, results>>

\* bestBass = evolvedBass[0], the chord progression, and the return of
\* generateProceduralMusic; the next call follows
BestBass ==
  /\ pc = "return" /\ stage = "bass"
  /\ results' = Append(results,
                       [melody |-> out.melody, harmony |-> out.harmony,
                        bassline |-> Content(heap, currentPop[1]),
                        chords |-> generateChordProgression(StarConfig(star), rng, 4),
                        config |-> StarConfig(star)])
  /\ rng' = Skip(rng, 8)
  /\ out' = <<>>
  /\ stage' = "melody"
  /\ currentPop' = <<>>
  /\ heap' = <<>>
  /\ nextId' = 1
  /\ call' = "second"
  /\ pc' = IF call = "first" THEN "call" ELSE "done"
  /\ UNCHANGED others
  /\ UNCHANGED <<star, seedArg, matrix, harmonyMatrix, newPop, gen, offspring, mi, elite,
                 initialBest>>

Next ==
  \/ Call
  \/ InitPhrase
  \/ EvaluateAndSort
  \/ Breed
  \/ MutateNote
  \/ Swap
  \/ FinalEvaluation
  \/ BestMelody
  \/ BestHarmony
  \/ BestBass

Spec == Init /\ [][Next]_vars

----------------------------------------------------------------------------
(* properties of generateProceduralMusic and evolvePopulation *)

\* every phrase the genetic algorithm holds at the moment
Phrases ==
  {currentPop[i] : i \in DOMAIN currentPop} \cup {newPop[i] : i \in DOMAIN newPop}
    \cup (IF pc = "mutate" THEN {offspring} ELSE {})

\* C2: at the end of every generation of evolvePopulation the two fittest
\* phrases of the population the generation started from are present in the
\* new population with exactly the notes, durations and velocities they had
\* when they were ranked.
C2_Elitism ==
  pc = "swap" =>
    \A e \in DOMAIN elite :
      \E i \in DOMAIN newPop : Content(heap, newPop[i]) = elite[e]

\* C3: mutating an offspring changes no phrase of the parent population and
\* no phrase already pushed to the new population (the elites among them):
\* their notes, durations and velocities are the same after the step.
C3_MutateChangesOnlyOffspring ==
  [][pc = "mutate" =>
       /\ \A i \in DOMAIN currentPop :
            Content(heap', currentPop[i]) = Content(heap, currentPop[i])
       /\ \A i \in DOMAIN newPop :
            Content(heap', newPop[i]) = Content(heap, newPop[i])]_vars

\* C4: the best fitness of the population evolvePopulation returns is at
\* least 0.9 times the best fitness of the initial population.
C4_NonRegression ==
  pc = "return" => FLe(FMul(Decimal(9, 10), initialBest), currentPop[1].fitness)

\* C6: every pitch of every phrase of every generation, and of the melody,
\* harmony and bassline returned, lies in [24, 96] and every velocity lies
\* in [0, 1].
C6_RangeInvariant ==
  /\ \A p \in Phrases :
       /\ \A i \in DOMAIN heap[p.notes] : heap[p.notes][i] \in 24..96
       /\ \A i \in DOMAIN heap[p.velocities] :
            FLe(FZero, heap[p.velocities][i]) /\ FLe(heap[p.velocities][i], FromInt(1))
  /\ \A c \in DOMAIN results :
       \A part \in {results[c].melody, results[c].harmony, results[c].bassline} :
         /\ \A i \in DOMAIN part.notes : part.notes[i] \in 24..96
         /\ \A i \in DOMAIN part.velocities :
              FLe(FZero, part.velocities[i]) /\ FLe(part.velocities[i], FromInt(1))

\* a returned harmony sitting on the upper bound: its base note is 96
C6_Witness ==
  /\ pc = "done"
  /\ StageConfig(star, "harmony").baseNote = 96
  /\ \E i \in DOMAIN results[1].harmony.notes : results[1].harmony.notes[i] = 96

\* C8: two calls generateProceduralMusic(star) without a seed, for the same
\* star, return identical output.
C8_SeedlessStable ==
  (pc = "done" /\ seedArg = <<>>) => results[1] = results[2]

----------------------------------------------------------------------------
(* src/unnamed/part_013: Eno-style voice loops (generateEnoAmbient).       *)
(* Seconds are held in units of 1e-4, positions in units of 1e-4, weights   *)
(* in halves.                                                               *)

\* createRNG(seed) of part_013 for an integer seed:
\* t = Math.floor(Math.abs(seed) * 0xffffffff) || 1
Eno_createRNG(seed) ==
  OrOne(RoundDouble(BigMul(Big(Abs(seed)), <<W16 - 1, W16 - 1>>)))

Eno_SCALES ==
  [pentatonic |-> [name |-> "Pentatonic", intervals |-> <<0, 2, 4, 7, 9>>],
   major      |-> [name |-> "Major",      intervals |-> <<0, 2, 4, 5, 7, 9, 11>>],
   dorian     |-> [name |-> "Dorian",     intervals |-> <<0, 2, 3, 5, 7, 9, 10>>],
   lydian     |-> [name |-> "Lydian",     intervals |-> <<0, 2, 4, 6, 7, 9, 11>>],
   mixolydian |-> [name |-> "Mixolydian", intervals |-> <<0, 2, 4, 5, 7, 9, 10>>],
   aeolian    |-> [name |-> "Aeolian",    intervals |-> <<0, 2, 3, 5, 7, 8, 10>>],
   phrygian   |-> [name |-> "Phrygian",   intervals |-> <<0, 1, 3, 5, 7, 8, 10>>],
   locrian    |-> [name |-> "Locrian",    intervals |-> <<0, 1, 3, 5, 6, 8, 10>>],
   wholeTone  |-> [name |-> "Whole Tone", intervals |-> <<0, 2, 4, 6, 8, 10>>]]

\* random() * total <= c, for whole numbers total and c
LeOf(u, total, c) ==
  FloorMul(u, total) < c \/ (FloorMul(u, total) = c /\ WholeMul(u, total))

\* the loop of weightedSelect from item i on; c is the sum of the weights
\* subtracted so far
RECURSIVE WeightedScan(_, _, _, _, _, _)
WeightedScan(items, weights, u, total, i, c) ==
  IF i > Len(items) THEN items[Len(items)]
  ELSE IF LeOf(u, total, c + weights[i]) THEN items[i]
  ELSE WeightedScan(items, weights, u, total, i + 1, c + weights[i])

\* weightedSelect(items, weights, random) where random() returns u
weightedSelect(items, weights, u) ==
  WeightedScan(items, weights, u, SumSeq(weights), 1, 0)

\* Array.prototype.findIndex, 1-based; 0 when no element is in S
FindIndex(intervals, S) ==
  IF \E i \in DOMAIN intervals : intervals[i] \in S
  THEN CHOOSE i \in DOMAIN intervals :
         intervals[i] \in S /\ \A j \in 1..(i - 1) : intervals[j] \notin S
  ELSE 0

\* createScaleWeights(scale), in halves: 1 -> 2, 4 -> 8, 3 -> 6, 2.5 -> 5
createScaleWeights(scale) ==
  LET fifthIdx == FindIndex(scale.intervals, {7})
      thirdIdx == FindIndex(scale.intervals, {3, 4})
      octaveIdx == FindIndex(scale.intervals, {12})
  IN  [i \in DOMAIN scale.intervals |->
         IF i = octaveIdx THEN 6
         ELSE IF i = thirdIdx THEN 5
         ELSE IF i = fifthIdx THEN 6
         ELSE IF i = 1 THEN 8
         ELSE 2]

selectScaleFromStar(s) ==
  LET temp == OrElse(s, "temp", 5500)
  IN  IF temp > 10000 THEN Eno_SCALES.lydian
      ELSE IF temp > 7500 THEN Eno_SCALES.major
      ELSE IF temp > 6000 THEN Eno_SCALES.mixolydian
      ELSE IF temp > 5000 THEN Eno_SCALES.dorian
      ELSE IF temp > 4000 THEN Eno_SCALES.aeolian
      ELSE Eno_SCALES.pentatonic

noteNames == <<"C", "C#", "D", "D#", "E", "F", "F#", "G", "G#", "A", "A#", "B">>

\* midiToNoteName(midi) of part_013
Eno_midiToNoteName(midi) ==
  noteNames[JsMod(midi, 12) + 1] \o ToString((midi \div 12) - 1)

\* const ratios = [1.0, 1.17, 1.31, 1.47, 1.59], in hundredths
ratios == <<100, 117, 131, 147, 159>>

\* the stars and seed arguments of the calls of generateEnoAmbient; ra and
\* dec are whole degrees, <<>> is a call without the seed argument
EnoStars ==
  { [ra |-> 0, dec |-> 0, temp |-> 6000, dist |-> 50],
    [ra |-> 10, dec |-> -45, temp |-> 3500],
    [ra |-> 5, dec |-> 20, temp |-> 12000, dist |-> 400] }

EnoSeeds == {<<>>, <<7>>, <<114>>, <<285>>}

\* pairs sorted by position, ascending, equal positions keeping their order
\* (combined.sort((a, b) => a.pos - b.pos))
SortByPos(combined) ==
  LET before(j, i) ==
        combined[j].pos < combined[i].pos \/ (combined[j].pos = combined[i].pos /\ j < i)
      rank(i) == Cardinality({j \in DOMAIN combined : j # i /\ before(j, i)}) + 1
  IN  [k \in DOMAIN combined |-> combined[CHOOSE i \in DOMAIN combined : rank(i) = k]]

EnoInit ==
  /\ ProceduralIdle
  /\ \E s \in EnoStars, sd \in EnoSeeds : eno = [pc |-> "call", star |-> s, seed |-> sd]
  /\ pat = Idle /\ eng = Idle

\* generateEnoAmbient(star, seed = 42) up to the loop over the voices:
\* createRNG, numVoices and baseCycle
EnoCall ==
  /\ eno.pc = "call"
  /\ \E t0 \in {Eno_createRNG((IF eno.seed = <<>> THEN 42 ELSE eno.seed[1])
                              + (eno.star.ra * 1000) + (eno.star.dec * 100))} :
       eno' = [pc |-> "voice", star |-> eno.star, seed |-> eno.seed,
               rng |-> Skip(t0, 2),
               scale |-> selectScaleFromStar(eno.star),
               numVoices |-> 3 + FloorMul(Draw(t0, 1), 2),
               baseCycle |-> 120000 + (2 * FloorMul(Draw(t0, 2), 20000)),
               voices |-> <<>>,
               loop |-> <<>>,
               out |-> <<>>]
  /\ UNCHANGED <<star, seedArg, call, pc, stage, rng, matrix, harmonyMatrix, heap, nextId,
                 currentPop, newPop, gen, offspring, mi, elite, initialBest, out, results,
                 pat, eng>>

\* a note count of two to five
noteCountWide(u) == 2 + FloorMul(u, 4)

\* const noteCount = 2 + Math.floor(random() * 2) where random() returns u
noteCount(u) == 2 + FloorMul(u, 2)

\* the head of one iteration of the loop over the voices: duration, and
\* createVoiceLoop up to its loop (noteCount)
EnoVoice ==
  /\ eno.pc = "voice"
  /\ LET i == Len(eno.voices)
     IN  eno' = [eno EXCEPT
                   !.pc = "note",
                   !.rng = Skip(@, 2),
                   !.loop = [voiceIndex |-> i,
                             cycleDuration |-> ((eno.baseCycle * ratios[i + 1]) \div 100)
                                                 + FloorMul(Draw(eno.rng, 1), 20000),
                             noteCount |-> noteCount(Draw(eno.rng, 2)),
                             combined |-> <<>>]]
  /\ UNCHANGED <<star, seedArg, call, pc, stage, rng, matrix, harmonyMatrix, heap, nextId,
                 currentPop, newPop, gen, offspring, mi, elite, initialBest, out, results,
                 pat, eng>>

\* one iteration of the loop of createVoiceLoop: a note and its position
EnoNote ==
  /\ eno.pc = "note"
  /\ LET i == Len(eno.loop.combined)
         interval == weightedSelect(eno.scale.intervals, createScaleWeights(eno.scale),
                                    Draw(eno.rng, 1))
         octaveShift == IF eno.loop.voiceIndex < 2 THEN 0 ELSE 12
         midiNote == 48 + interval + octaveShift
         pos == ((i * 10000) + 5000 + FloorMul(Draw(eno.rng, 2), 3000)) \div eno.loop.noteCount
     IN  eno' = [eno EXCEPT
                   !.rng = Skip(@, 2),
                   !.loop.combined = Append(@, [note |-> Eno_midiToNoteName(midiNote),
                                                pos |-> clamp(pos, 1000, 9000)]),
                   !.pc = IF i + 1 < eno.loop.noteCount THEN "note" ELSE "push"]
  /\ UNCHANGED <<star, seedArg, call, pc, stage, rng, matrix, harmonyMatrix, heap, nextId,
                 currentPop, newPop, gen, offspring, mi, elite, initialBest, out, results,
                 pat, eng>>

\* the end of createVoiceLoop (sort by position) and voices.push
EnoPush ==
  /\ eno.pc = "push"
  /\ LET combined == SortByPos(eno.loop.combined)
         voice == [notes |-> [k \in DOMAIN combined |-> combined[k].note],
                   cycleDuration |-> eno.loop.cycleDuration,
                   notePositions |-> [k \in DOMAIN combined |-> combined[k].pos],
                   \* clamp(0.6 - voiceIndex * 0.05, 0.4, 0.7), in hundredths
                   velocity |-> clamp(60 - (eno.loop.voiceIndex * 5), 40, 70)]
     IN  eno' = [eno EXCEPT
                   !.voices = Append(@, voice),
                   !.pc = IF Len(eno.voices) + 1 < eno.numVoices THEN "voice" ELSE "return"]
  /\ UNCHANGED <<star, seedArg, call, pc, stage, rng, matrix, harmonyMatrix, heap, nextId,
                 currentPop, newPop, gen, offspring, mi, elite, initialBest, out, results,
                 pat, eng>>

\* the return of generateEnoAmbient; warmth and spaciousness in units of 1e-4
EnoReturn ==
  /\ eno.pc = "return"
  /\ LET temp == OrElse(eno.star, "temp", 5500)
         dist == OrElse(eno.star, "dist", 100)
     IN  eno' = [eno EXCEPT
                   !.pc = "done",
                   !.out = [voices |-> eno.voices,
                            bpm |-> 60,
                            warmth |-> clamp((8000 - temp) * 2, 3000, 8000),
                            spaciousness |-> clamp((dist * 100) \div 3, 3000, 7000)]]
  /\ UNCHANGED <<star, seedArg, call, pc, stage, rng, matrix, harmonyMatrix, heap, nextId,
                 currentPop, newPop, gen, offspring, mi, elite, initialBest, out, results,
                 pat, eng>>

EnoNext ==
  \/ EnoCall
  \/ EnoVoice
  \/ EnoNote
  \/ EnoPush
  \/ EnoReturn

SpecEno == EnoInit /\ [][EnoNext]_vars

\* two cycle durations a and b are within one part in a thousand of the
\* ratio p : q (p >= q)
NearRatio(a, b, p, q) ==
  LET lo == IF a < b THEN a ELSE b
      hi == IF a < b THEN b ELSE a
  IN  Abs((q * hi) - (p * lo)) * 1000 <= p * lo

\* C5: no two voices returned by generateEnoAmbient have cycle durations
\* that are equal or whose ratio is within a small tolerance (one part in a
\* thousand) of 1:1, 2:1 or 3:2.
C5_NonCommensurate ==
  eno.pc = "done" =>
    \A i, j \in DOMAIN eno.out.voices :
      i < j =>
        LET a == eno.out.voices[i].cycleDuration
            b == eno.out.voices[j].cycleDuration
        IN  ~NearRatio(a, b, 1, 1) /\ ~NearRatio(a, b, 2, 1) /\ ~NearRatio(a, b, 3, 2)

-----------------------------------------------------------------------------
(* The pattern generator (part_015): generatePatternFromStar.  Beats,        *)
(* durations, tempo, brightness and density are doubles, motif weights are   *)
(* in halves.                                                                *)

procedural ==
  <<star, seedArg, call, pc, stage, rng, matrix, harmonyMatrix, heap, nextId,
    currentPop, newPop, gen, offspring, mi, elite, initialBest, out, results>>

\* new SeededRNG(seed) for an integer seed:
\* this.state = Math.floor(Math.abs(seed) * 0xffffffff) || 1
SeededRNG(seed) ==
  OrOne(RoundDouble(BigMul(Big(Abs(seed)), <<W16 - 1, W16 - 1>>)))

\* rng.nextInt(min, max) for the output u of rng.next()
nextInt(u, min, max) == FloorMul(u, (max - min) + 1) + min

\* rng.nextFloat(min, max): this.next() * (max - min) + min
nextFloat(u, min, max) == FAdd(FMul(FromWord(u), FSub(max, min)), min)

\* the value of an array element that does not exist
Undefined == [undefined |-> TRUE]

\* rng.pick(items): items[Math.floor(this.next() * items.length)]; for an
\* empty array the index is 0 and the element does not exist
pick(items, u) ==
  IF FloorMul(u, Len(items)) + 1 \in DOMAIN items
  THEN items[FloorMul(u, Len(items)) + 1]
  ELSE Undefined

\* rng.weightedPick(items, weights); for an empty array the loop does not run
\* and items[items.length - 1] does not exist
weightedPick(items, weights, u) ==
  IF items = <<>> THEN Undefined
  ELSE WeightedScan(items, weights, u, SumSeq(weights), 1, 0)

\* the loop of shuffle at index i of the copy (counted from 0), the
\* generator in state t having made k - 1 draws: j is drawn from 0 .. i and
\* the elements at i and j change places
RECURSIVE ShuffleLoop(_, _, _, _)
ShuffleLoop(result, t, i, k) ==
  IF i <= 0 THEN result
  ELSE Apply(LAMBDA j :
               ShuffleLoop([result EXCEPT ![i + 1] = result[j + 1],
                                          ![j + 1] = result[i + 1]],
                           t, i - 1, k + 1),
             FloorMul(Draw(t, k), i + 1))

\* rng.shuffle(array) of a generator in state t: the shuffled copy, after
\* array.length - 1 draws (none for an array of fewer than two elements)
shuffle(array, t) == ShuffleLoop(array, t, Len(array) - 1, 1)

ShuffleDraws(array) == IF Len(array) > 1 THEN Len(array) - 1 ELSE 0

\* z0 of nextGaussian in two factors: the root, Infinity for u1 = 0, and the
\* cosine
GaussianZ0(a) ==
  [root |-> IF a.u1.m = <<>> THEN FInfinity(1)
            ELSE FSqrt(FMul(FromInt(-2), ieee754_log(a.u1))),
   cosine |-> ieee754_cos(FMul(FMul(FromInt(2), PI), a.u2))] @@ a

GaussianEnd(a) ==
  IF a.u1.m # <<>> THEN FAdd(FMul(FMul(a.root, a.cosine), a.stdDev), a.mean)
  ELSE IF a.stdDev.m = <<>> \/ a.stdDev.s = 0 \/ a.mean.s = 0 THEN FNaN
  ELSE FInfinity(a.cosine.s * a.stdDev.s)

\* rng.nextGaussian(mean, stdDev) of a generator in state t, after two
\* draws u1 and u2:
\* Math.sqrt(-2.0 * Math.log(u1)) * Math.cos(2.0 * Math.PI * u2) * stdDev + mean.
\* For u1 = 0 the logarithm is -Infinity and the root Infinity: the result
\* is NaN for a stdDev of 0 and else the infinity of the sign of the cosine
\* times stdDev.
nextGaussian(t, mean, stdDev) ==
  Apply(GaussianEnd,
        Apply(GaussianZ0,
              [u1 |-> FromWord(Draw(t, 1)), u2 |-> FromWord(Draw(t, 2)),
               mean |-> mean, stdDev |-> stdDev]))

Pattern_SCALES ==
  [ionian     |-> [name |-> "Ionian (Major)",   intervals |-> <<0, 2, 4, 5, 7, 9, 11>>],
   dorian     |-> [name |-> "Dorian",           intervals |-> <<0, 2, 3, 5, 7, 9, 10>>],
   phrygian   |-> [name |-> "Phrygian",         intervals |-> <<0, 1, 3, 5, 7, 8, 10>>],
   lydian     |-> [name |-> "Lydian",           intervals |-> <<0, 2, 4, 6, 7, 9, 11>>],
   mixolydian |-> [name |-> "Mixolydian",       intervals |-> <<0, 2, 4, 5, 7, 9, 10>>],
   aeolian    |-> [name |-> "Aeolian (Minor)",  intervals |-> <<0, 2, 3, 5, 7, 8, 10>>],
   locrian    |-> [name |-> "Locrian",          intervals |-> <<0, 1, 3, 5, 6, 8, 10>>],
   pentatonic |-> [name |-> "Pentatonic Major", intervals |-> <<0, 2, 4, 7, 9>>],
   pentatonicMinor |-> [name |-> "Pentatonic Minor", intervals |-> <<0, 3, 5, 7, 10>>]]

\* a spectral class is a sequence of characters, <<>> when the star has none
\* (undefined and "" both take the !spec branch);
\* spec.charAt(0).toUpperCase() for the letters that occur
toUpperCase(c) ==
  IF c = "o" THEN "O" ELSE IF c = "b" THEN "B" ELSE IF c = "a" THEN "A"
  ELSE IF c = "f" THEN "F" ELSE IF c = "g" THEN "G" ELSE IF c = "k" THEN "K"
  ELSE IF c = "m" THEN "M" ELSE c

FirstLetter(spec) == toUpperCase(spec[1])

spectralClassToMode(spec) ==
  IF spec = <<>> THEN "dorian"
  ELSE LET letter == FirstLetter(spec)
       IN  IF letter = "O" THEN "lydian"
           ELSE IF letter = "B" THEN "ionian"
           ELSE IF letter = "A" THEN "mixolydian"
           ELSE IF letter = "F" THEN "dorian"
           ELSE IF letter = "G" THEN "dorian"
           ELSE IF letter = "K" THEN "aeolian"
           ELSE IF letter = "M" THEN "phrygian"
           ELSE "dorian"

specToTemp(spec) ==
  IF spec = <<>> THEN 5800
  ELSE LET letter == FirstLetter(spec)
       IN  IF letter = "O" THEN 30000
           ELSE IF letter = "B" THEN 20000
           ELSE IF letter = "A" THEN 10000
           ELSE IF letter = "F" THEN 7500
           ELSE IF letter = "G" THEN 5800
           ELSE IF letter = "K" THEN 4500
           ELSE IF letter = "M" THEN 3200
           ELSE 5800

\* const normalized = Math.max(0, Math.min(1, (temp - 3000) / (12000 - 3000)));
\* return Math.round(36 + normalized * 24)
starToBaseNote(s) ==
  LET temp == OrElse(s, "temp", specToTemp(s.spec))
      normalized == FClamp(FDiv(FromInt(temp - 3000), FromInt(12000 - 3000)),
                           FZero, FromInt(1))
  IN  FRoundHalfUp(FAdd(FromInt(36), FMul(normalized, FromInt(24))))

\* temperatureToParams(star.temp).brightness: t = temp ?? 5500,
\* Math.max(0, Math.min(1, (t - 3000) / (30000 - 3000)))
brightnessOf(s) ==
  LET t == OrElse(s, "temp", 5500)
  IN  FClamp(FDiv(FromInt(t - 3000), FromInt(30000 - 3000)), FZero, FromInt(1))

chordIntervals ==
  [major |-> <<0, 4, 7>>, minor |-> <<0, 3, 7>>, sus4 |-> <<0, 5, 7>>,
   dim |-> <<0, 3, 6>>, aug |-> <<0, 4, 8>>]

buildChord(root, quality) ==
  [notes |-> [k \in 1..3 |-> root + chordIntervals[quality][k]], quality |-> quality]

openVoicing(chord, baseOctave) ==
  <<chord.notes[1] + ((baseOctave - 1) * 12),
    chord.notes[3] + (baseOctave * 12),
    chord.notes[2] + ((baseOctave + 1) * 12)>>

progressionTypes ==
  << <<[degree |-> 0, quality |-> "major"], [degree |-> 3, quality |-> "major"]>>,
     <<[degree |-> 0, quality |-> "minor"], [degree |-> 5, quality |-> "major"]>>,
     <<[degree |-> 0, quality |-> "major"], [degree |-> 5, quality |-> "minor"],
       [degree |-> 3, quality |-> "major"]>>,
     <<[degree |-> 0, quality |-> "minor"], [degree |-> 3, quality |-> "minor"]>> >>

\* const startWeights = [4, 1, 2.5, 1, 2, 1, 1], in halves
startWeights == <<8, 2, 5, 2, 4, 2, 2>>

\* the motif length default of generateMotif
MotifLength == 3

\* the stars and seeds of the calls of generatePatternFromStar
PatternStars ==
  { [spec |-> <<"G", "2", "V">>, temp |-> 5800],
    [spec |-> <<"B", "8">>, temp |-> 12000],
    [spec |-> <<"m", "1">>],
    [spec |-> <<>>, temp |-> 30000],
    [spec |-> <<"K", "5">>, temp |-> 4500],
    [spec |-> <<"X">>] }

PatternSeeds == {0, 1, 42, 37430, 95495}

PatternInit ==
  /\ ProceduralIdle
  /\ eno = Idle /\ eng = Idle
  /\ \E s \in PatternStars, sd \in PatternSeeds : pat = [pc |-> "call", star |-> s, seed |-> sd]

\* generatePatternFromStar up to the loop of generateChordProgression
PatternCall ==
  /\ pat.pc = "call"
  /\ \E t0 \in {SeededRNG(pat.seed)} :
       LET mode == spectralClassToMode(pat.star.spec)
           brightness == brightnessOf(pat.star)
       IN  pat' = [pc |-> "chord", star |-> pat.star, seed |-> pat.seed,
                   rng |-> Skip(t0, 1),
                   mode |-> mode,
                   scale |-> IF mode \in DOMAIN Pattern_SCALES THEN Pattern_SCALES[mode]
                             ELSE Pattern_SCALES.dorian,
                   baseNote |-> starToBaseNote(pat.star),
                   tempo |-> FAdd(FromInt(60), FMul(brightness, FromInt(20))),
                   density |-> FAdd(Decimal(3, 10), FMul(brightness, Decimal(3, 10))),
                   progType |-> pick(progressionTypes, Draw(t0, 1)),
                   chords |-> <<>>, durations |-> <<>>,
                   cycleDuration |-> FZero, measureCount |-> 0, motifCount |-> 0,
                   motifs |-> <<>>, currentIdx |-> 0,
                   motif |-> [notes |-> <<>>, durations |-> <<>>, velocities |-> <<>>],
                   currentBeat |-> FZero, m |-> 0, i |-> 0,
                   pianoEvents |-> <<>>, stringEvents |-> <<>>, out |-> <<>>]
  /\ UNCHANGED <<procedural, eno, eng>>

\* one iteration of the loop of generateChordProgression
PatternChord ==
  /\ pat.pc = "chord"
  /\ LET step == pat.progType[Len(pat.chords) + 1]
         scaleIndex == step.degree % Len(pat.scale.intervals)
         root == pat.baseNote + pat.scale.intervals[scaleIndex + 1]
     IN  pat' = [pat EXCEPT
                   !.chords = Append(@, buildChord(root, step.quality)),
                   !.durations = Append(@, nextFloat(Draw(pat.rng, 1), FromInt(4), FromInt(8))),
                   !.rng = Skip(@, 1),
                   !.pc = IF Len(pat.chords) + 1 < Len(pat.progType) THEN "chord" ELSE "piano"]
  /\ UNCHANGED <<procedural, eno, eng>>

\* cycleDuration = durations.reduce((a, b) => a + b, 0) and
\* measureCount = Math.ceil(cycleDuration / 4) of generatePatternFromStar, and
\* the head of generatePianoSequence (motifCount)
PatternPiano ==
  /\ pat.pc = "piano"
  /\ \E cycleDuration \in {FSum(pat.durations, Len(pat.durations))} :
     pat' = [pat EXCEPT
               !.cycleDuration = cycleDuration,
               !.measureCount = FCeil(FDiv(cycleDuration, FromInt(4))),
               !.motifCount = nextInt(Draw(pat.rng, 1), 1, 2),
               !.rng = Skip(@, 1),
               !.pc = "motif"]
  /\ UNCHANGED <<procedural, eno, eng>>

\* the head of generateMotif(scale, baseNote + 12, rng): the starting degree
PatternMotif ==
  /\ pat.pc = "motif"
  /\ LET n == Len(pat.scale.intervals)
     IN  pat' = [pat EXCEPT
                   !.currentIdx = weightedPick([k \in 1..n |-> k - 1], SubSeq(startWeights, 1, n),
                                               Draw(pat.rng, 1)),
                   !.motif = [notes |-> <<>>, durations |-> <<>>, velocities |-> <<>>],
                   !.rng = Skip(@, 1),
                   !.pc = "note"]
  /\ UNCHANGED <<procedural, eno, eng>>

\* one iteration of the loop of generateMotif; after the last one the motif
\* is pushed by generatePianoSequence
PatternMotifNote ==
  /\ pat.pc = "note"
  /\ LET n == Len(pat.scale.intervals)
         interval == pat.scale.intervals[pat.currentIdx + 1]
         octaveShift == IF LtMilli(Draw(pat.rng, 1), 300) THEN 12 ELSE 0
         dur == weightedPick(<<2, 3, 4, 6>>, <<1, 2, 2, 1>>, Draw(pat.rng, 2))
         direction == IF LtMilli(Draw(pat.rng, 4), 500) THEN -1 ELSE 1
         step == IF LtMilli(Draw(pat.rng, 5), 700) THEN 1 ELSE 2
         motif == [notes |-> Append(pat.motif.notes, pat.baseNote + 12 + interval + octaveShift),
                   durations |-> Append(pat.motif.durations, FromInt(dur)),
                   velocities |-> Append(pat.motif.velocities, nextInt(Draw(pat.rng, 3), 40, 70))]
         last == Len(motif.notes) = MotifLength
     IN  pat' = [pat EXCEPT
                   !.motif = motif,
                   !.currentIdx = (pat.currentIdx + (direction * step) + n) % n,
                   !.rng = Skip(@, 5),
                   !.motifs = IF last THEN Append(@, motif) ELSE @,
                   !.pc = IF ~last THEN "note"
                          ELSE IF Len(pat.motifs) + 1 < pat.motifCount THEN "motif"
                          ELSE "start"]
  /\ UNCHANGED <<procedural, eno, eng>>

\* let currentBeat = rng.nextFloat(0, 2)
PatternStart ==
  /\ pat.pc = "start"
  /\ pat' = [pat EXCEPT
               !.currentBeat = nextFloat(Draw(pat.rng, 1), FZero, FromInt(2)),
               !.rng = Skip(@, 1),
               !.m = 1, !.i = 1,
               !.pc = "place"]
  /\ UNCHANGED <<procedural, eno, eng>>

\* const totalBeats = measureCount * beatsPerMeasure
totalBeats(measureCount) == FromInt(measureCount * 4)

\* one iteration of the inner loop of generatePianoSequence that pushes an
\* event: currentBeat >= totalBeats is false
PatternPlace ==
  /\ pat.pc = "place"
  /\ pat.i <= Len(pat.motifs[pat.m].notes)
  /\ ~FLe(totalBeats(pat.measureCount), pat.currentBeat)
  /\ LET motif == pat.motifs[pat.m]
     IN  pat' = [pat EXCEPT
                   !.pianoEvents = Append(@, [midi |-> motif.notes[pat.i],
                                              time |-> pat.currentBeat,
                                              duration |-> motif.durations[pat.i],
                                              velocity |-> motif.velocities[pat.i]]),
                   !.currentBeat = FAdd(@, FAdd(motif.durations[pat.i],
                                                nextFloat(Draw(pat.rng, 1),
                                                          Decimal(5, 10), FromInt(2)))),
                   !.rng = Skip(@, 1),
                   !.i = @ + 1]
  /\ UNCHANGED <<procedural, eno, eng>>

\* the end of the inner loop (all notes placed, or break) and the gap between
\* motifs
PatternGap ==
  /\ pat.pc = "place"
  /\ \/ pat.i > Len(pat.motifs[pat.m].notes)
     \/ FLe(totalBeats(pat.measureCount), pat.currentBeat)
  /\ pat' = [pat EXCEPT
               !.currentBeat = FAdd(@, nextFloat(Draw(pat.rng, 1), FromInt(4), FromInt(8))),
               !.rng = Skip(@, 1),
               !.m = @ + 1, !.i = 1,
               !.pc = IF pat.m < Len(pat.motifs) THEN "place" ELSE "string",
               !.currentIdx = 0]
  /\ UNCHANGED <<procedural, eno, eng>>

\* the event of voiced note j (0-based) of a chord that starts at beat and
\* lasts duration, drawn from state t
PadEvent(voicedNotes, j, beat, duration, t) ==
  LET stagger == FMul(FromInt(j), nextFloat(Draw(t, 1), Decimal(1, 10), Decimal(3, 10)))
  IN  [midi |-> voicedNotes[j + 1],
       time |-> FAdd(beat, stagger),
       duration |-> FAdd(FSub(duration, stagger), nextFloat(Draw(t, 2), FZero, FromInt(1))),
       velocity |-> nextInt(Draw(t, 3), 35, 55)]

\* one iteration of the outer loop of generateStringPadSequence: the three
\* events of one chord; currentIdx counts the chords done, currentBeat
\* restarts at 0
PatternString ==
  /\ pat.pc = "string"
  /\ LET c == pat.currentIdx + 1
         beat == FSum(pat.durations, c - 1)
         voicedNotes == openVoicing(pat.chords[c], 2)
     IN  pat' = [pat EXCEPT
                   !.stringEvents = @ \o [j \in 1..3 |->
                                            PadEvent(voicedNotes, j - 1, beat, pat.durations[c],
                                                     Skip(pat.rng, 3 * (j - 1)))],
                   !.rng = Skip(@, 9),
                   !.currentIdx = c,
                   !.pc = IF c < Len(pat.chords) THEN "string" ELSE "return"]
  /\ UNCHANGED <<procedural, eno, eng>>

\* the return of generatePatternFromStar
PatternReturn ==
  /\ pat.pc = "return"
  /\ pat' = [pat EXCEPT
               !.pc = "done",
               !.out = [pianoEvents |-> pat.pianoEvents,
                        stringEvents |-> pat.stringEvents,
                        config |-> [scale |-> pat.scale, baseNote |-> pat.baseNote,
                                    mode |-> pat.mode, tempo |-> pat.tempo,
                                    phraseLength |-> pat.measureCount * 4,
                                    density |-> pat.density],
                        chordProgression |-> [chords |-> pat.chords,
                                              durations |-> pat.durations],
                        cycleDuration |-> pat.cycleDuration]]
  /\ UNCHANGED <<procedural, eno, eng>>

PatternNext ==
  \/ PatternCall
  \/ PatternChord
  \/ PatternPiano
  \/ PatternMotif
  \/ PatternMotifNote
  \/ PatternStart
  \/ PatternPlace
  \/ PatternGap
  \/ PatternString
  \/ PatternReturn

SpecPattern == PatternInit /\ [][PatternNext]_vars

\* C7: every note event returned by generatePatternFromStar, in pianoEvents and
\* in stringEvents, has a pitch in the MIDI bound [24, 96].
C7_PatternPitchRange ==
  pat.pc = "done" =>
    /\ \A k \in DOMAIN pat.out.pianoEvents :
         pat.out.pianoEvents[k].midi >= 24 /\ pat.out.pianoEvents[k].midi <= 96
    /\ \A k \in DOMAIN pat.out.stringEvents :
         pat.out.stringEvents[k].midi >= 24 /\ pat.out.stringEvents[k].midi <= 96

-----------------------------------------------------------------------------
(* The ambient engine (engine.ts): playForStar and the star-to-music mapping. *)
(* Strings are sequences of characters.  Seeds are in sixteenths.  Beats,      *)
(* pitches, tempo, density, warmth and spaciousness are doubles; the          *)
(* durations of the notes are in units of 1e-4 beats and the velocities of    *)
(* the piano notes in hundredths.  The state of a generator is the whole      *)
(* number its double holds.                                                   *)

\* the characters of code 32 to 126, in order (the grave accent, code 96,
\* by name)
Ascii ==
  <<" ", "!", "\"", "#", "$", "%", "&", "'", "(", ")", "*", "+", ",", "-", ".", "/",
     "0", "1", "2", "3", "4", "5", "6", "7", "8", "9", ":", ";", "<", "=", ">", "?",
     "@", "A", "B", "C", "D", "E", "F", "G", "H", "I", "J", "K", "L", "M", "N", "O",
     "P", "Q", "R", "S", "T", "U", "V", "W", "X", "Y", "Z", "[", "\\", "]", "^", "_",
     "grave", "a", "b", "c", "d", "e", "f", "g", "h", "i", "j", "k", "l", "m", "n", "o",
     "p", "q", "r", "s", "t", "u", "v", "w", "x", "y", "z", "{", "|", "}", "~" >>

\* str.charCodeAt(i) for the character c = str[i]
charCodeAt(c) == 31 + (CHOOSE i \in DOMAIN Ascii : Ascii[i] = c)

\* the string of a whole number, as string concatenation makes it
RECURSIVE Digits(_)
Digits(n) ==
  IF n < 10 THEN <<Ascii[17 + n]>> ELSE Digits(n \div 10) \o <<Ascii[17 + (n % 10)]>>

NumberToString(n) == IF n < 0 THEN <<"-">> \o Digits(-n) ELSE Digits(n)

\* the loop of hashStar from character i on; hash is a 32-bit word:
\*   hash = ((hash << 5) - hash) + str.charCodeAt(i); hash = hash & hash
RECURSIVE HashScan(_, _, _)
HashScan(str, i, hash) ==
  IF i > Len(str) THEN hash
  ELSE Apply(LAMBDA h : HashScan(str, i + 1, h),
             Add32(Imul32(<<0, 31>>, hash), <<0, charCodeAt(str[i])>>))

\* Math.abs of the 32-bit word read as a signed integer
AbsInt32(h) ==
  IF h[1] < 32768 THEN (h[1] * W16) + h[2]
  ELSE (((W16 - 1) - h[1]) * W16) + ((W16 - 1) - h[2]) + 1

hashStar(s) ==
  AbsInt32(HashScan(s.id \o NumberToString(s.ra) \o NumberToString(s.dec) \o s.name,
                    1, <<0, 0>>))

\* Math.floor(a / 16)
BigShr4(a) ==
  BigTrim([i \in DOMAIN a |-> (a[i] \div 16) + ((BigLimb(a, i + 1) % 16) * 4096)])

\* new SeededRNG(seed) of engine.ts for the seed seed[1] + seed[2] / 16:
\* this.state = Math.floor(Math.abs(seed) * 0xffffffff) || 1, a double.  The
\* product of the seed in sixteenths and 0xffffffff is rounded as the double
\* product is, then floored.
Engine_SeededRNG(seed) ==
  LET sixteenths == BigAdd(BigMul(Big(Abs(seed[1])), Big(16)), Big(Abs(seed[2])))
      state == BigShr4(RoundDouble(BigMul(sixteenths, <<W16 - 1, W16 - 1>>)))
  IN  IF state = <<>> THEN <<1>> ELSE state

Engine_SCALES ==
  [ionian     |-> [name |-> "Major",      intervals |-> <<0, 2, 4, 5, 7, 9, 11>>],
   dorian     |-> [name |-> "Dorian",     intervals |-> <<0, 2, 3, 5, 7, 9, 10>>],
   phrygian   |-> [name |-> "Phrygian",   intervals |-> <<0, 1, 3, 5, 7, 8, 10>>],
   lydian     |-> [name |-> "Lydian",     intervals |-> <<0, 2, 4, 6, 7, 9, 11>>],
   mixolydian |-> [name |-> "Mixolydian", intervals |-> <<0, 2, 4, 5, 7, 9, 10>>],
   aeolian    |-> [name |-> "Minor",      intervals |-> <<0, 2, 3, 5, 7, 8, 10>>],
   pentatonic |-> [name |-> "Pentatonic", intervals |-> <<0, 2, 4, 7, 9>>]]

PROGRESSIONS ==
  [hopeful     |-> << <<0, 4, 7>>, <<5, 9, 12>>, <<7, 11, 14>>, <<0, 4, 7>> >>,
   melancholic |-> << <<0, 3, 7>>, <<5, 8, 12>>, <<3, 7, 10>>, <<0, 3, 7>> >>,
   serene      |-> << <<0, 7, 14>>, <<5, 12, 19>>, <<7, 14, 21>>, <<0, 7, 14>> >>,
   mysterious  |-> << <<0, 1, 7>>, <<5, 6, 12>>, <<7, 8, 14>>, <<0, 1, 7>> >>]

CHORD_PALETTES ==
  [warm      |-> << <<0, 4, 7, 11>>, <<0, 3, 7, 10>>, <<0, 5, 9, 12>> >>,
   airy      |-> << <<0, 7, 12, 16>>, <<0, 4, 9, 14>>, <<0, 2, 7, 11>> >>,
   consonant |-> << <<0, 4, 7>>, <<0, 3, 7>>, <<0, 7, 12>> >>,
   modern    |-> << <<0, 4, 7, 14>>, <<0, 3, 7, 13>>, <<0, 5, 7, 12>> >>]

\* Object.keys(CHORD_PALETTES)
paletteKeys == <<"warm", "airy", "consonant", "modern">>

ROOT_NOTES == <<36, 38, 40, 41, 43>>

RHYTHM_PATTERNS ==
  << <<FZero, Decimal(15, 10), FromInt(3)>>,
     <<FZero, FromInt(1), FromInt(2), FromInt(3)>>,
     <<FZero, FromInt(2), Decimal(35, 10)>>,
     <<Decimal(5, 10), Decimal(15, 10), FromInt(3)>>,
     <<FZero, FromInt(1), FromInt(3), Decimal(35, 10)>> >>

ARP_PATTERNS == <<"up", "down", "updown", "broken">>

FAST_RHYTHMS ==
  << <<FZero, Decimal(25, 100), Decimal(5, 10)>>,
     <<FZero, Decimal(5, 10)>>,
     <<FZero, Decimal(166, 1000), Decimal(333, 1000), Decimal(5, 10)>>,
     <<FZero, Decimal(3, 10), Decimal(6, 10)>>,
     <<FZero, Decimal(125, 1000), Decimal(25, 100)>> >>

Engine_specToTemp(spec) ==
  IF spec = <<>> THEN 5800
  ELSE LET letter == FirstLetter(spec)
       IN  IF letter = "O" THEN 35000
           ELSE IF letter = "B" THEN 20000
           ELSE IF letter = "A" THEN 9500
           ELSE IF letter = "F" THEN 7200
           ELSE IF letter = "G" THEN 5800
           ELSE IF letter = "K" THEN 4400
           ELSE IF letter = "M" THEN 3200
           ELSE 5800

\* a choice of scale by the star hash alone
tempToScaleByHash(temp, starHash) ==
  <<Engine_SCALES.lydian, Engine_SCALES.ionian, Engine_SCALES.mixolydian,
    Engine_SCALES.dorian, Engine_SCALES.aeolian, Engine_SCALES.pentatonic>>[(starHash % 6) + 1]

tempToScale(temp, starHash) ==
  LET scaleOptions ==
        IF temp > 12000 THEN <<Engine_SCALES.lydian, Engine_SCALES.ionian>>
        ELSE IF temp > 8000
          THEN <<Engine_SCALES.ionian, Engine_SCALES.mixolydian, Engine_SCALES.lydian>>
        ELSE IF temp > 6500
          THEN <<Engine_SCALES.mixolydian, Engine_SCALES.dorian, Engine_SCALES.ionian>>
        ELSE IF temp > 5200
          THEN <<Engine_SCALES.dorian, Engine_SCALES.aeolian, Engine_SCALES.mixolydian>>
        ELSE IF temp > 4000
          THEN <<Engine_SCALES.aeolian, Engine_SCALES.dorian, Engine_SCALES.pentatonic>>
        ELSE <<Engine_SCALES.pentatonic, Engine_SCALES.aeolian>>
  IN  scaleOptions[(starHash % Len(scaleOptions)) + 1]

getEmotion(temp, scale, starHash) ==
  LET emotions ==
        IF scale.name = "Lydian" THEN <<"mysterious", "serene">>
        ELSE IF scale.name = "Major" THEN <<"hopeful", "serene">>
        ELSE IF scale.name = "Mixolydian" THEN <<"hopeful", "melancholic">>
        ELSE IF scale.name = "Dorian" THEN <<"melancholic", "mysterious">>
        ELSE IF scale.name = "Minor" THEN <<"melancholic", "serene">>
        ELSE <<"serene", "mysterious">>
  IN  emotions[(starHash % Len(emotions)) + 1]

\* const mag = star.mag ?? 2, for a magnitude given in tenths
starMag(s) ==
  IF "mag10" \in DOMAIN s THEN FDiv(FromInt(s.mag10), FromInt(10)) ELSE FromInt(2)

\* const magNorm = clamp((6 - mag) / 8, 0, 1)
starMagNorm(s) ==
  FClamp(FDiv(FSub(FromInt(6), starMag(s)), FromInt(8)), FZero, FromInt(1))

\* starToMusicParams(star) from the scale on, for the star hash starHash and
\* the values of magNorm, dist and temp
musicParams(s, starHash, magNorm, dist, temp) ==
  LET \* Math.floor((ra / 360) * ROOT_NOTES.length) % ROOT_NOTES.length, where %
      \* keeps the sign of the floor
      rootIndex == JsMod(FFloor(FMul(FDiv(FromInt(s.ra), FromInt(360)),
                                     FromInt(Len(ROOT_NOTES)))),
                         Len(ROOT_NOTES))
      \* Math.round((dec + 90) / 180 * 4) - 2
      decShift == FRoundHalfUp(FMul(FDiv(FromInt(s.dec + 90), FromInt(180)), FromInt(4))) - 2
      noteOffset == IF temp > 15000 THEN 0 ELSE 12
      distNorm == FClamp(FDiv(dist, FromInt(500)), FZero, FromInt(1))
      tempNorm == FClamp(FDiv(FromInt(temp - 3000), FromInt(25000)), FZero, FromInt(1))
      \* ROOT_NOTES[rootIndex] + decShift; an index outside the array reads
      \* undefined and the sum is NaN
  IN  [baseNote |-> IF rootIndex + 1 \in DOMAIN ROOT_NOTES
                    THEN FromInt(ROOT_NOTES[rootIndex + 1] + decShift)
                    ELSE FNaN,
       scale |-> tempToScale(temp, starHash),
       tempo |-> FAdd(FromInt(52), FMul(magNorm, FromInt(18))),
       warmth |-> FClamp(FAdd(Decimal(35, 100),
                              FMul(FSub(FromInt(1), tempNorm), Decimal(5, 10))),
                         Decimal(35, 100), Decimal(85, 100)),
       spaciousness |-> FClamp(FDiv(dist, FromInt(300)), Decimal(25, 100), Decimal(7, 10)),
       density |-> FAdd(FAdd(Decimal(2, 10), FMul(magNorm, Decimal(35, 100))),
                        FMul(FSub(FromInt(1), distNorm), Decimal(15, 100))),
       emotion |-> getEmotion(temp, tempToScale(temp, starHash), starHash),
       noteOffset |-> noteOffset,
       paletteName |-> paletteKeys[(starHash % Len(paletteKeys)) + 1],
       harmonyShift |-> (starHash % 3) - 1,
       fastNoteOffset |-> IF temp > 15000 THEN 12 ELSE noteOffset]

\* starToMusicParams(star): temp = star.temp ?? specToTemp(star.spec),
\* mag = star.mag ?? 2, dist = star.dist ?? 100, starHash = hashStar(star)
starToMusicParams(s) ==
  Apply(LAMBDA starHash :
          Apply3(LAMBDA magNorm, dist, temp : musicParams(s, starHash, magNorm, dist, temp),
                 starMagNorm(s),
                 FromInt(OrElse(s, "dist", 100)),
                 OrElse(s, "temp", Engine_specToTemp(s.spec))),
        hashStar(s))

buildVoicedProgression(progression, paletteName, starHash, harmonyShift) ==
  LET palette == CHORD_PALETTES[paletteName]
  IN  [idx \in DOMAIN progression |->
         LET chordRoot == progression[idx][1]
             voicing == palette[((starHash + (idx - 1)) % Len(palette)) + 1]
         IN  [k \in DOMAIN voicing |-> chordRoot + voicing[k] + harmonyShift]]

getStarRhythm(starHash) == RHYTHM_PATTERNS[(starHash % Len(RHYTHM_PATTERNS)) + 1]
getStarArpStyle(starHash) == ARP_PATTERNS[(starHash % Len(ARP_PATTERNS)) + 1]

Min(a, b) == IF a < b THEN a ELSE b
Max(a, b) == IF a > b THEN a ELSE b

\* generateMotif(params, rng) with the generator in state t: the motif and
\* the state of the generator afterwards
generateMotif(params, t) ==
  LET intervals == params.scale.intervals
      maxDegree == Min(4, Len(intervals) - 1)
      commonFifth == intervals[Min(4, Len(intervals) - 1) + 1]
      from(secondIdx, moves, dir) ==
        [motif |-> <<0,
                     intervals[secondIdx + 1],
                     IF moves THEN intervals[clamp(secondIdx + dir, 0, maxDegree) + 1] ELSE 0,
                     pick(<<0, intervals[secondIdx + 1], commonFifth>>,
                          Draw(t, IF moves THEN 4 ELSE 3))>>,
         rng |-> Skip(t, IF moves THEN 4 ELSE 3)]
  IN  Apply3(from,
             nextInt(Draw(t, 1), 1, Max(1, maxDegree)),
             LtMilli(Draw(t, 2), 600),
             IF LtMilli(Draw(t, 3), 600) THEN 1 ELSE -1)

\* x + n for a double x and the sum n of whole numbers added to it one by
\* one: sums of whole numbers are exact, and NaN plus a number is NaN
Plus(x, n) == FAdd(x, FromInt(n))

\* one pass of pianoRhythm.forEach in composePhrase: beats shifted by offset,
\* velocity first for the first note and rest for the others (hundredths)
PianoPass(params, motif, pianoRhythm, offset, first, rest) ==
  [i \in DOMAIN pianoRhythm |->
     [beat |-> Plus(pianoRhythm[i], offset),
      midi |-> Plus(params.baseNote,
                    params.noteOffset + motif[((i - 1) % Len(motif)) + 1]
                      + params.harmonyShift),
      duration |-> IF i - 1 = 2 THEN 15000 ELSE 8000,
      velocity |-> IF i - 1 = 0 THEN first ELSE rest]]

\* the arpeggio of composePhrase for an arpeggio style
arpPatternOf(params, arpStyle) ==
  LET intervals == params.scale.intervals
      root == 0
      third == intervals[3]
      fifth == intervals[5]
  IN  IF arpStyle = "down" THEN <<fifth, third, root>>
      ELSE IF arpStyle = "updown" THEN <<root, third, fifth, third>>
      ELSE IF arpStyle = "broken" THEN <<root, fifth, third>>
      ELSE <<root, third, fifth>>

\* the guitar note j of response slot respIdx (both 0-based), u the draw of
\* its entry of pattern: subOffset = v + (respIdx * 0.03 * (rng.next() - 0.5))
\* and beat = responseBeat + subOffset.  The velocity and the jitter of a
\* guitar note are Box-Muller values (sqrt, log, cos): their draws are
\* counted, the two fields are left out.
GuitarNote(params, arpPattern, responseBeat, fastRhythm, startRot, octaveJump, respIdx, j, u) ==
  [beat |-> FAdd(responseBeat,
                 FAdd(fastRhythm[j + 1],
                      FMul(FMul(FromInt(respIdx), Decimal(3, 100)),
                           FSub(FromWord(u), Decimal(5, 10))))),
   midi |-> Plus(params.baseNote,
                 (IF respIdx = 2 THEN 0 ELSE params.fastNoteOffset)
                   + arpPattern[((startRot + j) % Len(arpPattern)) + 1]
                   + (IF octaveJump /\ j % 2 = 1 THEN 12 ELSE 0)
                   + params.harmonyShift),
   duration |-> 2800]

\* the guitar response of composePhrase (density > 0.3) with the generator in
\* state t: the notes and the state of the generator afterwards
GuitarNotes(params, arpPattern, pianoRhythm, t) ==
  LET responseBeats == IF Len(pianoRhythm) <= 3
                       THEN <<FromInt(3), FromInt(7), FromInt(11)>>
                       ELSE <<Decimal(35, 10), Decimal(75, 10), Decimal(115, 10)>>
      response(fastRhythm, startRot, octaveJump) ==
        [notes |-> [n \in 1..(3 * Len(fastRhythm)) |->
                      LET respIdx == (n - 1) \div Len(fastRhythm)
                          j == (n - 1) % Len(fastRhythm)
                      IN  GuitarNote(params, arpPattern, responseBeats[respIdx + 1],
                                     fastRhythm, startRot, octaveJump, respIdx, j,
                                     Draw(t, 3 + (respIdx * 5 * Len(fastRhythm)) + j + 1))],
         rng |-> Skip(t, 3 + (15 * Len(fastRhythm)))]
  IN  Apply3(response,
             pick(FAST_RHYTHMS, Draw(t, 1)),
             nextInt(Draw(t, 2), 0, Max(0, Len(arpPattern) - 1)),
             LtMilli(Draw(t, 3), 250))

\* composePhrase(params, rng, star) from the star hash on, with
\* state.motif = motif
composeFor(params, motif, starHash, t) ==
  LET pianoRhythm == getStarRhythm(starHash)
      base == params.noteOffset + params.harmonyShift
      pianoNotes ==
        PianoPass(params, motif, pianoRhythm, 0, 55, 45)
          \o PianoPass(params, motif, pianoRhythm, 4, 55, 45)
          \o PianoPass(params, motif, pianoRhythm, 8, 45, 38)
          \o << [beat |-> FromInt(12), midi |-> Plus(params.baseNote, base),
                 duration |-> 20000, velocity |-> 50],
                [beat |-> FromInt(14),
                 midi |-> Plus(params.baseNote, base + params.scale.intervals[5]),
                 duration |-> 15000, velocity |-> 40] >>
      chordProgression ==
        buildVoicedProgression(PROGRESSIONS[params.emotion], params.paletteName, starHash,
                               params.harmonyShift)
      guitar == IF FLt(Decimal(3, 10), params.density)
                THEN GuitarNotes(params, arpPatternOf(params, getStarArpStyle(starHash)),
                                 pianoRhythm, t)
                ELSE [notes |-> <<>>, rng |-> t]
  IN  Apply(LAMBDA g : [phrase |-> [pianoNotes |-> pianoNotes, guitarNotes |-> g.notes,
                                    chordProgression |-> chordProgression],
                        rng |-> g.rng],
            guitar)

\* composePhrase(params, rng, star): the phrase and the state of the generator
\* afterwards
composePhrase(params, motif, s, t) ==
  Apply(LAMBDA starHash : composeFor(params, motif, starHash, t), hashStar(s))

\* scale.intervals.indexOf(v), 0-based; -1 when absent
indexOf(intervals, v) ==
  IF \E i \in DOMAIN intervals : intervals[i] = v
  THEN (CHOOSE i \in DOMAIN intervals :
          intervals[i] = v /\ \A j \in 1..(i - 1) : intervals[j] # v) - 1
  ELSE -1

\* the first half of evolveMotif: one note of the motif is rewritten; k is
\* the number of draws made
EvolveNote(params, motif, t) ==
  LET intervals == params.scale.intervals
      at(evolveIdx, currentIdx, r) ==
        IF currentIdx < 0 THEN [motif |-> motif, k |-> 1]
        ELSE IF r < 250
          THEN [motif |-> [motif EXCEPT ![evolveIdx + 1] = intervals[Max(0, currentIdx - 1) + 1]],
                k |-> 2]
        ELSE IF r < 500
          THEN [motif |-> [motif EXCEPT ![evolveIdx + 1] =
                             intervals[Min(Len(intervals) - 1, currentIdx + 1) + 1]],
                k |-> 2]
        ELSE IF r < 800 THEN [motif |-> motif, k |-> 2]
        ELSE [motif |-> [motif EXCEPT ![evolveIdx + 1] = pick(intervals, Draw(t, 3))],
              k |-> 3]
      of(evolveIdx) == at(evolveIdx, indexOf(intervals, motif[evolveIdx + 1]), Milli(Draw(t, 2)))
  IN  Apply(of, nextInt(Draw(t, 1), 0, Len(motif) - 1))

\* a note is added or removed whatever the length of the motif
EvolveLengthUnguarded(params, motif, t) ==
  LET intervals == params.scale.intervals
  IN  IF LtMilli(Draw(t, 1), 150)
      THEN Append(motif, pick(intervals, Draw(t, 2)))
      ELSE IF LtMilli(Draw(t, 2), 100)
        THEN SubSeq(motif, 1, Len(motif) - 1)
      ELSE motif

\* the second half of evolveMotif: a note is added or removed; both branches
\* make two draws
EvolveLength(params, motif, t) ==
  LET intervals == params.scale.intervals
  IN  IF LtMilli(Draw(t, 1), 150) /\ Len(motif) < 6
      THEN Append(motif, pick(intervals, Draw(t, 2)))
      ELSE IF LtMilli(Draw(t, 2), 100) /\ Len(motif) > 3
        THEN SubSeq(motif, 1, Len(motif) - 1)
      ELSE motif

evolveMotif(params, motif, t) ==
  Apply(LAMBDA e : [motif |-> EvolveLength(params, e.motif, Skip(t, e.k)),
                    rng |-> Skip(t, e.k + 2)],
        EvolveNote(params, motif, t))

\* the stars and seeds of the calls of playForStar: ra and dec in whole
\* degrees, mag10 in tenths of a magnitude, seeds in sixteenths, <<>> for a
\* call without seed and for a field the star does not have
EngineStars ==
  { [id |-> <<"A">>, ra |-> 10, dec |-> 5, name |-> <<>>,
     temp |-> 3200, spec |-> <<>>, mag10 |-> 20, dist |-> 100],
    [id |-> <<"H", "I", "P", "1">>, ra |-> 100, dec |-> -45, name |-> <<"V", "e", "g", "a">>,
     spec |-> <<"A", "0">>, mag10 |-> 0, dist |-> 25],
    [id |-> <<"S", "3">>, ra |-> 250, dec |-> 60, name |-> <<>>,
     temp |-> 20000, spec |-> <<"B">>, mag10 |-> 65, dist |-> 600],
    [id |-> <<"B">>, ra |-> 5, dec |-> 45, name |-> <<>>,
     temp |-> 5800, spec |-> <<"G">>] }

EngineSeeds == {<<>>, <<4>>, <<48>>}

\* the seed of sd sixteenths as whole part and sixteenths
SeedOf(sd) == <<sd \div 16, sd % 16>>

\* the number of runs of the end-of-cycle callback the model follows
MaxPhraseCount == 4

Null == [null |-> TRUE]

\* the timeline of the transport: the repeated callbacks (loops) and the
\* events registered on it by scheduleRepeat and schedule
NoTimeline == [loops |-> 0, events |-> 0]

Transport_keep(timeline) == timeline

\* state.transport.cancel(): every event of the timeline is removed, repeated
\* or not
Transport_cancel(timeline) == NoTimeline

\* state.transport.clear(state.loopId)
Transport_clear(timeline) ==
  [timeline EXCEPT !.loops = IF @ > 0 THEN @ - 1 ELSE 0]

\* the events registered by schedulePadDrone (the filter restore when
\* magNorm > 0.45, and the drone) and scheduleStrings (two chords)
scheduledParts(s) ==
  (IF FLt(Decimal(45, 100), starMagNorm(s)) THEN 1 ELSE 0) + 1 + 2

\* the registrations of scheduleGenerativeMusic: the parts, the scheduler
\* loop after a clear of the one recorded in state.loopId, and the
\* end-of-cycle callback
scheduleGenerativeMusic(timeline, loopId, scheduled) ==
  LET parts == [timeline EXCEPT !.events = @ + scheduled]
      cleared == IF loopId THEN Transport_clear(parts) ELSE parts
  IN  [cleared EXCEPT !.loops = @ + 1, !.events = @ + 1]

\* stopAudio() on the engine state e
Engine_stopAudio(e) ==
  IF ~e.transport THEN e
  ELSE [e EXCEPT
          !.timeline = IF e.loopId THEN Transport_clear(Transport_cancel(@))
                       ELSE Transport_cancel(@),
          !.loopId = FALSE,
          !.playing = FALSE]

\* the number of calls in flight that the model follows
MaxPending == 2

\* the tasks without task i
RemoveAt(tasks, i) ==
  [k \in 1..(Len(tasks) - 1) |-> IF k < i THEN tasks[k] ELSE tasks[k + 1]]

\* The entry points of the engine are async functions.  The calls in flight
\* are a bag of records of the function called and the await the call is
\* suspended at:
\* "import" in initAudio, at await importTone() / await T.start(), and
\* "generate" in initAudio, at await state.reverb.generate().  Other calls
\* run during these waits.  A continuation that follows an await of a
\* settled promise runs before any other call.
EngineInit ==
  /\ ProceduralIdle
  /\ eno = Idle /\ pat = Idle
  /\ eng = [pc |-> "engine", initialized |-> FALSE, transport |-> FALSE, playing |-> FALSE,
            loopId |-> FALSE, currentStar |-> Null, currentSeed |-> <<0, 0>>,
            phraseCount |-> 0, currentPhrase |-> 0, motif |-> <<>>,
            composed |-> Null, rng |-> Null, params |-> Null, bpm |-> 0,
            last |-> Null, previous |-> Null,
            timeline |-> NoTimeline, piano |-> FALSE, tasks |-> EmptyBag]

\* initAudio(), called on an engine that is not initialized: the call runs
\* to await importTone() and waits there.  On an initialized engine the call
\* returns at once and changes nothing.
initAudio ==
  /\ eng.pc = "engine"
  /\ ~eng.initialized
  /\ BagCardinality(eng.tasks) < MaxPending
  /\ eng' = [eng EXCEPT !.tasks = @ (+) SetToBag({[fn |-> "initAudio", at |-> "import"]})]
  /\ UNCHANGED <<procedural, eno, pat>>

\* loadInstruments(): if (!state.initialized) await initAudio()
loadInstruments ==
  /\ eng.pc = "engine"
  /\ ~eng.initialized
  /\ BagCardinality(eng.tasks) < MaxPending
  /\ eng' = [eng EXCEPT
               !.tasks = @ (+) SetToBag({[fn |-> "loadInstruments", at |-> "import"]})]
  /\ UNCHANGED <<procedural, eno, pat>>

\* what playForStar(star, seed) derives from its arguments: the seed used,
\* the mapping of the star, the motif, and the phrase composed and the
\* number of parts scheduled by scheduleGenerativeMusic
played(s, sd) ==
  LET finalSeed == IF sd = <<>> THEN <<hashStar(s), 0>> ELSE SeedOf(sd[1])
      params == starToMusicParams(s)
  IN  Apply(LAMBDA m :
              Apply(LAMBDA c : [finalSeed |-> finalSeed, params |-> params,
                                motif |-> m.motif, phrase |-> c.phrase, rng |-> c.rng,
                                scheduled |-> scheduledParts(s)],
                    composePhrase(params, m.motif, s, m.rng)),
            generateMotif(params, Engine_SeededRNG(finalSeed)))

\* played for each of the calls <<star, seed>>, as a table
RECURSIVE PlayedOver(_)
PlayedOver(calls) ==
  IF calls = {} THEN <<>>
  ELSE LET c == CHOOSE c \in calls : TRUE
       IN  (c :> played(c[1], c[2])) @@ PlayedOver(calls \ {c})

\* played, for every call that is made
Played == PlayedOver(EngineStars \X EngineSeeds)

\* playForStar(star, seed) from if (state.playing) stopAudio() on, for the
\* engine state e.  The arguments are read here for the first time.  last
\* and previous record this call and the one before it.
playFrom(e) ==
  \E s \in EngineStars, sd \in EngineSeeds :
    \E p \in {Played[s, sd]} :
    \E stopped \in {IF e.playing THEN Engine_stopAudio(e) ELSE e} :
      eng' = [e EXCEPT
                !.timeline = scheduleGenerativeMusic(stopped.timeline,
                                                     stopped.loopId, p.scheduled),
                !.currentStar = s,
                !.currentSeed = p.finalSeed,
                !.phraseCount = 0,
                !.currentPhrase = 0,
                !.params = p.params,
                !.motif = p.motif,
                !.composed = p.phrase,
                !.rng = p.rng,
                !.loopId = TRUE,
                !.bpm = p.params.tempo,
                !.playing = TRUE,
                !.previous = e.last,
                !.last = [star |-> s, seed |-> p.finalSeed, params |-> p.params,
                          motif |-> p.motif]]

\* playForStar(star, seed): on an initialized engine the whole call; on an
\* engine that is not initialized the call waits in await initAudio()
playForStar ==
  /\ eng.pc = "engine"
  /\ \/ eng.initialized /\ playFrom(eng)
     \/ /\ ~eng.initialized
        /\ BagCardinality(eng.tasks) < MaxPending
        /\ eng' = [eng EXCEPT
                     !.tasks = @ (+) SetToBag({[fn |-> "playForStar", at |-> "import"]})]
  /\ UNCHANGED <<procedural, eno, pat>>

\* initAudio after importTone and T.start: the instruments and the reverb are
\* built and assigned to the state, up to await state.reverb.generate().
\* state.initialized is not tested again.
Engine_InitBuild ==
  /\ eng.pc = "engine"
  /\ \E task \in BagToSet(eng.tasks) :
       /\ task.at = "import"
       /\ eng' = [eng EXCEPT
                    !.piano = TRUE,
                    !.tasks = (@ (-) SetToBag({task}))
                              (+) SetToBag({[task EXCEPT !.at = "generate"]})]
  /\ UNCHANGED <<procedural, eno, pat>>

\* initAudio after reverb.generate.  state.piano.chain(...) throws a
\* TypeError when dispose() has run during the wait, and the call is
\* rejected.  Otherwise the effect chain is connected, state.transport and
\* state.initialized are set and initAudio returns; a playForStar that was
\* waiting for it goes on in the same turn of the event loop.
Engine_InitConnect ==
  /\ eng.pc = "engine"
  /\ \E task \in BagToSet(eng.tasks) :
       /\ task.at = "generate"
       /\ IF ~eng.piano
          THEN eng' = [eng EXCEPT !.tasks = @ (-) SetToBag({task})]
          ELSE \E e \in {[eng EXCEPT !.transport = TRUE,
                                     !.initialized = TRUE,
                                     !.tasks = @ (-) SetToBag({task})]} :
                 IF task.fn = "playForStar" THEN playFrom(e) ELSE eng' = e
  /\ UNCHANGED <<procedural, eno, pat>>

\* stopAudio()
stopAudio ==
  /\ eng.pc = "engine"
  /\ eng' = Engine_stopAudio(eng)
  /\ UNCHANGED <<procedural, eno, pat>>

\* the callback scheduled at the end of each cycle by scheduleGenerativeMusic
PhraseEnd ==
  /\ eng.pc = "engine"
  /\ eng.playing
  /\ eng.phraseCount < MaxPhraseCount
  /\ IF (eng.phraseCount + 1) % 4 = 0
     THEN \E e \in {evolveMotif(eng.params, eng.motif, eng.rng)} :
          \E c \in {composePhrase(eng.params, e.motif, eng.currentStar, e.rng)} :
            eng' = [eng EXCEPT
                      !.phraseCount = @ + 1,
                      !.motif = e.motif,
                      !.composed = c.phrase,
                      !.rng = c.rng]
     ELSE eng' = [eng EXCEPT !.phraseCount = @ + 1]
  /\ UNCHANGED <<procedural, eno, pat>>

\* dispose(): stopAudio(), then every node is disposed and set to null
dispose ==
  /\ eng.pc = "engine"
  /\ eng' = [Engine_stopAudio(eng) EXCEPT
               !.piano = FALSE,
               !.transport = FALSE,
               !.initialized = FALSE]
  /\ UNCHANGED <<procedural, eno, pat>>

EngineNext ==
  \/ initAudio
  \/ loadInstruments
  \/ playForStar
  \/ Engine_InitBuild
  \/ Engine_InitConnect
  \/ stopAudio
  \/ PhraseEnd
  \/ dispose

SpecEngine == EngineInit /\ [][EngineNext]_vars

\* the temperatures and star hashes given to tempToScale
Temperatures ==
  {3200, 3999, 4000, 4001, 5199, 5200, 5201, 6499, 6500, 6501, 7999, 8000, 8001,
   9940, 11999, 12000, 12001, 30000}

StarHashes == {0, 1, 2, 3, 4, 5, 2147483647}

TempToScaleInit ==
  /\ ProceduralIdle
  /\ eno = Idle /\ pat = Idle
  /\ \E temp \in Temperatures, h \in StarHashes :
       eng = [pc |-> "temp", temp |-> temp, starHash |-> h, scale |-> Null]

ApplyTempToScale ==
  /\ eng.pc = "temp"
  /\ eng' = [eng EXCEPT !.pc = "scale", !.scale = tempToScale(eng.temp, eng.starHash)]
  /\ UNCHANGED <<procedural, eno, pat>>

SpecTempToScale == TempToScaleInit /\ [][ApplyTempToScale]_vars

\* C10: tempToScale returns a scale from the documented bucket of the
\* temperature: above 12000 K lydian or ionian; 8000-12000 ionian, mixolydian
\* or lydian; 6500-8000 mixolydian, dorian or ionian; 5200-6500 dorian, aeolian
\* or mixolydian; 4000-5200 aeolian, dorian or pentatonic; below 4000
\* pentatonic or aeolian.  A temperature on a boundary belongs to both buckets
\* that name it.
C10_ScaleFromBucket ==
  eng.pc = "scale" =>
    LET S == Engine_SCALES
        t == eng.temp
    IN  \/ t > 12000 /\ eng.scale \in {S.lydian, S.ionian}
        \/ t >= 8000 /\ t <= 12000 /\ eng.scale \in {S.ionian, S.mixolydian, S.lydian}
        \/ t >= 6500 /\ t <= 8000 /\ eng.scale \in {S.mixolydian, S.dorian, S.ionian}
        \/ t >= 5200 /\ t <= 6500 /\ eng.scale \in {S.dorian, S.aeolian, S.mixolydian}
        \/ t >= 4000 /\ t <= 5200 /\ eng.scale \in {S.aeolian, S.dorian, S.pentatonic}
        \/ t < 4000 /\ eng.scale \in {S.pentatonic, S.aeolian}

\* the cool star of 3200 K has been given the pentatonic scale
C10_Witness ==
  eng.pc = "scale" /\ eng.temp = 3200 /\ eng.scale = Engine_SCALES.pentatonic

\* C18: every configuration returned by generateEnoAmbient has three to five
\* voices, and every voice has one to three notes and one position per note.
C18_VoicesAndNotes ==
  eno.pc = "done" =>
    /\ Len(eno.out.voices) >= 3 /\ Len(eno.out.voices) <= 5
    /\ \A v \in DOMAIN eno.out.voices :
         /\ Len(eno.out.voices[v].notes) >= 1
         /\ Len(eno.out.voices[v].notes) <= 3
         /\ Len(eno.out.voices[v].notePositions) = Len(eno.out.voices[v].notes)

\* a returned configuration of four voices, one with two notes and one with
\* three
C18_Witness ==
  /\ eno.pc = "done"
  /\ Len(eno.out.voices) = 4
  /\ \E v, w \in DOMAIN eno.out.voices :
       Len(eno.out.voices[v].notes) = 2 /\ Len(eno.out.voices[w].notes) = 3

\* C11: a star as hot as Sirius (9940 K) is given a scale of the lydian/ionian
\* family, whatever its star hash.
C11_SiriusHotFamily ==
  (eng.pc = "scale" /\ eng.temp = 9940) =>
    eng.scale \in {Engine_SCALES.lydian, Engine_SCALES.ionian}

-----------------------------------------------------------------------------
(* A SeededRNG object (part_015:7-87; engine.ts has the same pick at         *)
(* 132-134): its state, and a call of one of its methods per step.  Every    *)
(* call leaves its name, its arguments and its result in the record.         *)

PickItems == {<<>>, <<10>>, <<10, 20>>, <<10, 20, 30>>}

\* the weight lists for n items: every list over 0, 1, 2, and the two lists
\* of two weights that cancel
PickWeights(n) ==
  [1..n -> {0, 1, 2}] \cup (IF n = 2 THEN {<<1, -1>>, <<-1, 1>>} ELSE {})

\* generator states: new SeededRNG(seed) for seeds 0, 1 and 42
PickStates == {SeededRNG(seed) : seed \in {0, 1, 42}}

\* the number of calls made on one generator
MaxCalls == 2

\* the bounds of nextInt and of nextFloat, and mean and stdDev of
\* nextGaussian: its defaults and a pitch around middle C
IntRanges == {<<0, 9>>, <<1, 6>>}
FloatRanges == {<<FZero, FromInt(1)>>, <<FromInt(4), FromInt(8)>>}
GaussianArgs == {<<FZero, FromInt(1)>>, <<FromInt(60), FromInt(12)>>}

\* new SeededRNG(seed)
SeededRNGInit ==
  /\ ProceduralIdle
  /\ eno = Idle /\ eng = Idle
  /\ \E t \in PickStates :
       pat = [pc |-> "rng", calls |-> 0, state |-> t, items |-> <<>>,
              weights |-> <<>>, args |-> <<>>, threw |-> FALSE,
              result |-> Undefined]

\* the record after a call that made the given number of draws
Called(name, items, weights, args, draws, result) ==
  [pc |-> name, calls |-> pat.calls + 1, state |-> Skip(pat.state, draws),
   items |-> items, weights |-> weights, args |-> args, threw |-> FALSE,
   result |-> result]

\* rng.next(): one draw
ApplyNext ==
  /\ pat.calls < MaxCalls
  /\ pat' = Called("next", <<>>, <<>>, <<>>, 1, FromWord(Draw(pat.state, 1)))
  /\ UNCHANGED <<procedural, eno, eng>>

\* rng.nextInt(min, max): one draw
ApplyNextInt ==
  /\ pat.calls < MaxCalls
  /\ \E range \in IntRanges :
       pat' = Called("nextInt", <<>>, <<>>, range, 1,
                     nextInt(Draw(pat.state, 1), range[1], range[2]))
  /\ UNCHANGED <<procedural, eno, eng>>

\* rng.nextFloat(min, max): one draw
ApplyNextFloat ==
  /\ pat.calls < MaxCalls
  /\ \E range \in FloatRanges :
       pat' = Called("nextFloat", <<>>, <<>>, range, 1,
                     nextFloat(Draw(pat.state, 1), range[1], range[2]))
  /\ UNCHANGED <<procedural, eno, eng>>

\* rng.pick(items): one draw, no throw statement
ApplyPick ==
  /\ pat.calls < MaxCalls
  /\ \E items \in PickItems :
       pat' = Called("pick", items, <<>>, <<>>, 1,
                     pick(items, Draw(pat.state, 1)))
  /\ UNCHANGED <<procedural, eno, eng>>

\* rng.weightedPick(items, weights): one draw, no throw statement
ApplyWeightedPick ==
  /\ pat.calls < MaxCalls
  /\ \E items \in PickItems :
       \E weights \in PickWeights(Len(items)) :
         pat' = Called("weightedPick", items, weights, <<>>, 1,
                       weightedPick(items, weights, Draw(pat.state, 1)))
  /\ UNCHANGED <<procedural, eno, eng>>

\* rng.shuffle(array): a draw for every element but the first
ApplyShuffle ==
  /\ pat.calls < MaxCalls
  /\ \E items \in PickItems :
       pat' = Called("shuffle", items, <<>>, <<>>, ShuffleDraws(items),
                     shuffle(items, pat.state))
  /\ UNCHANGED <<procedural, eno, eng>>

\* rng.nextGaussian(mean, stdDev): two draws
ApplyNextGaussian ==
  /\ pat.calls < MaxCalls
  /\ \E args \in GaussianArgs :
       pat' = Called("nextGaussian", <<>>, <<>>, args, 2,
                     nextGaussian(pat.state, args[1], args[2]))
  /\ UNCHANGED <<procedural, eno, eng>>

SeededRNGNext ==
  \/ ApplyNext
  \/ ApplyNextInt
  \/ ApplyNextFloat
  \/ ApplyPick
  \/ ApplyWeightedPick
  \/ ApplyShuffle
  \/ ApplyNextGaussian

SpecSeededRNG == SeededRNGInit /\ [][SeededRNGNext]_vars

\* C12: weightedPick with weights that sum to zero and a non-empty item list
\* does not throw and returns the last item.
C12_ZeroWeightsLastItem ==
  (pat.pc = "weightedPick" /\ pat.items # <<>> /\ SumSeq(pat.weights) = 0) =>
    (~pat.threw /\ pat.result = pat.items[Len(pat.items)])

\* C13: pick with an empty item list fails at the call; it returns no value.
C13_EmptyPickFails ==
  (pat.pc = "pick" /\ pat.items = <<>>) => pat.threw

-----------------------------------------------------------------------------
(* starToMusicParams (engine.ts:489-538) as a pure function of the star,     *)
(* for coordinates inside and outside [0, 360) and [-90, 90] and for         *)
(* extreme magnitudes, temperatures and distances.                           *)

ParamStars ==
  { [id |-> <<"s">>, ra |-> ra, dec |-> dec, name |-> <<>>, spec |-> <<"M">>]
      @@ Optional("temp", temp) @@ Optional("mag10", mag10) @@ Optional("dist", dist) :
      ra \in {-10, 0, 359, 400}, dec \in {-100, 0, 90},
      temp \in {<<1>>, <<9940>>, <<100000>>, <<>>},
      mag10 \in {<<-300>>, <<-1>>, <<20>>, <<300>>, <<>>},
      dist \in {<<1>>, <<300>>, <<100000>>, <<>>} }

StarParamsInit ==
  /\ ProceduralIdle
  /\ eno = Idle /\ pat = Idle
  /\ \E s \in ParamStars : eng = [pc |-> "star", star |-> s, params |-> Null]

ApplyStarToMusicParams ==
  /\ eng.pc = "star"
  /\ \E params \in {starToMusicParams(eng.star)} :
       eng' = [eng EXCEPT !.pc = "params", !.params = params]
  /\ UNCHANGED <<procedural, eno, pat>>

SpecStarParams == StarParamsInit /\ [][ApplyStarToMusicParams]_vars

\* C14: for any right ascension and declination, inside or outside their
\* ranges, the base note returned by starToMusicParams is a number, not NaN.
C14_BaseNoteDefined ==
  eng.pc = "params" => eng.params.baseNote # FNaN

\* C15: starToMusicParams returns a tempo within [52, 85] BPM and a density,
\* a warmth and a spaciousness within [0, 1], for any magnitude and any
\* positive temperature and distance.
C15_ParamsInRange ==
  eng.pc = "params" =>
    /\ FLe(FromInt(52), eng.params.tempo) /\ FLe(eng.params.tempo, FromInt(85))
    /\ FLe(FZero, eng.params.density) /\ FLe(eng.params.density, FromInt(1))
    /\ FLe(FZero, eng.params.warmth) /\ FLe(eng.params.warmth, FromInt(1))
    /\ FLe(FZero, eng.params.spaciousness) /\ FLe(eng.params.spaciousness, FromInt(1))

\* the brightest and farthest star: the clamps hold the tempo at 70 BPM and
\* the spaciousness at 0.7
C15_Witness ==
  /\ eng.pc = "params"
  /\ "mag10" \in DOMAIN eng.star /\ eng.star.mag10 = -300
  /\ eng.params.tempo = FromInt(70)
  /\ "dist" \in DOMAIN eng.star /\ eng.star.dist = 100000
  /\ eng.params.spaciousness = Decimal(7, 10)

-----------------------------------------------------------------------------
(* The configuration that generateProceduralMusic derives from the star      *)
(* (procedural.ts:585-598), for stars with and without temp, dist and spec,  *)
(* beside the letter table of mappings.ts.                                   *)

\* specToTemp(spec) of mappings.ts
Mappings_specToTemp(spec) ==
  IF spec = <<>> THEN 5800
  ELSE LET letter == FirstLetter(spec)
       IN  IF letter = "O" THEN 30000
           ELSE IF letter = "B" THEN 20000
           ELSE IF letter = "A" THEN 10000
           ELSE IF letter = "F" THEN 7500
           ELSE IF letter = "G" THEN 5800
           ELSE IF letter = "K" THEN 4500
           ELSE IF letter = "M" THEN 3200
           ELSE 5800

ConfigStars ==
  { [mag10 |-> mag10, spec |-> spec] @@ Optional("temp", temp) @@ Optional("dist", dist) :
      temp \in {<<>>, <<3000>>, <<9940>>}, mag10 \in {-146, 20, 60},
      dist \in {<<>>, <<50>>},
      spec \in {<<>>, <<"O">>, <<"B", "8">>, <<"A", "1", "V">>, <<"F">>, <<"G", "2">>,
                <<"K">>, <<"M">>, <<"m", "5">>, <<"X">>} }

StarConfigInit ==
  /\ eno = Idle /\ pat = Idle /\ eng = Idle
  /\ \E s \in ConfigStars : ProceduralStart(s, <<42>>, "star")

\* the lines of generateProceduralMusic that derive config from the star
ApplyStarConfig ==
  /\ pc = "star"
  /\ pc' = "config"
  /\ out' = StarConfig(star)
  /\ UNCHANGED others
  /\ UNCHANGED <<star, seedArg, call, stage, rng, matrix, harmonyMatrix, heap, nextId,
                 currentPop, newPop, gen, offspring, mi, elite, initialBest, results>>

SpecStarConfig == StarConfigInit /\ [][ApplyStarConfig]_vars

\* C16: generateProceduralMusic takes a missing temperature from the
\* spectral-class letter table (5800 K when the class is missing too) and a
\* missing distance as 10.
C16_SparseStarDefaults ==
  pc = "config" =>
    /\ out.temperature =
         (IF "temp" \in DOMAIN star THEN star.temp ELSE Mappings_specToTemp(star.spec))
    /\ out.distance = (IF "dist" \in DOMAIN star THEN star.dist ELSE 10)

-----------------------------------------------------------------------------
(* generateChordProgression and buildTransitionMatrix (procedural.ts) as     *)
(* pure functions of the scale, the base note, the requested length and the  *)
(* state of the generator.                                                   *)

\* the longest progression asked for
MaxChords == 4

ScaleNames == DOMAIN SCALES

ScaleArgs ==
  { [scale |-> SCALES[name], baseNote |-> baseNote, length |-> length] :
      name \in ScaleNames, baseNote \in {48, 60}, length \in 1..MaxChords }

ScaleSeeds == {1, 42, 43}

ScaleInit ==
  /\ eno = Idle /\ pat = Idle /\ eng = Idle
  /\ \E a \in ScaleArgs, seed \in ScaleSeeds :
       /\ star = a
       /\ seedArg = seed
       /\ rng = createRNG(seed)
       /\ pc = "scale"
       /\ call = "first" /\ stage = "melody"
       /\ matrix = <<>> /\ harmonyMatrix = <<>> /\ heap = <<>> /\ nextId = 1
       /\ currentPop = <<>> /\ newPop = <<>> /\ gen = 0 /\ offspring = NoPhrase
       /\ mi = 0 /\ elite = <<>> /\ initialBest = FZero /\ out = <<>> /\ results = <<>>

\* generateChordProgression(config, random, length)
ApplyChordProgression ==
  /\ pc = "scale"
  /\ pc' = "chords"
  /\ \E chords \in {generateChordProgression(star, rng, star.length)} : out' = chords
  /\ rng' = Skip(rng, 2 * star.length)
  /\ UNCHANGED others
  /\ UNCHANGED <<star, seedArg, call, stage, matrix, harmonyMatrix, heap, nextId,
                 currentPop, newPop, gen, offspring, mi, elite, initialBest, results>>

\* buildTransitionMatrix(scale, random)
ApplyTransitionMatrix ==
  /\ pc = "scale"
  /\ pc' = "matrix"
  /\ \E m \in {buildTransitionMatrix(star.scale, rng)} : matrix' = m
  /\ rng' = Skip(rng, Len(star.scale.intervals) * Len(star.scale.intervals))
  /\ UNCHANGED others
  /\ UNCHANGED <<star, seedArg, call, stage, harmonyMatrix, heap, nextId, currentPop,
                 newPop, gen, offspring, mi, elite, initialBest, out, results>>

ScaleNext == ApplyChordProgression \/ ApplyTransitionMatrix

SpecScale == ScaleInit /\ [][ScaleNext]_vars

\* C17: generateChordProgression returns as many roots, qualities and
\* durations as the length asked for, and the first chord is the tonic: its
\* root is the base note plus the first interval of the scale.
C17_ProgressionLengthAndTonic ==
  pc = "chords" =>
    /\ Len(out.roots) = star.length
    /\ Len(out.qualities) = star.length
    /\ Len(out.durations) = star.length
    /\ out.roots[1] = star.baseNote + star.scale.intervals[1]

\* a progression of four chords on a pentatonic scale that leaves the tonic
C17_Witness ==
  /\ pc = "chords"
  /\ star.length = 4 /\ Len(star.scale.intervals) = 5
  /\ Len(out.roots) = 4
  /\ out.roots[1] = star.baseNote
  /\ out.roots[2] # out.roots[1]

\* C19: buildTransitionMatrix returns one row per scale degree and the
\* probabilities of every row sum to 1 within 1e-5: the sum s of a row, added
\* up entry by entry in double precision, has s - 1 <= 1e-5 and 1 - s <= 1e-5.
C19_RowsSumToOne ==
  pc = "matrix" =>
    /\ Len(matrix) = Len(star.scale.intervals)
    /\ \A from \in DOMAIN matrix :
         /\ Len(matrix[from]) = Len(star.scale.intervals)
         /\ \E s \in {FSum(matrix[from], Len(matrix[from]))} :
              /\ FLe(FSub(s, FromInt(1)), FDiv(FromInt(1), FromInt(100000)))
              /\ FLe(FSub(FromInt(1), s), FDiv(FromInt(1), FromInt(100000)))

\* the matrix of a seven-note scale, where a step from the root is more
\* probable than a leap of a sixth
C19_Witness ==
  /\ pc = "matrix"
  /\ Len(matrix) = 7
  /\ FLt(matrix[1][7], matrix[1][2])

-----------------------------------------------------------------------------
(* midiToNoteName and noteNameToMidi (part_015:522-539).  A note name is the *)
(* sequence of its characters.                                               *)

NOTE_NAMES ==
  << <<"C">>, <<"C", "#">>, <<"D">>, <<"D", "#">>, <<"E">>, <<"F">>, <<"F", "#">>,
     <<"G">>, <<"G", "#">>, <<"A">>, <<"A", "#">>, <<"B">> >>

\* `${NOTE_NAMES[midi % 12]}${Math.floor(midi / 12) - 1}` for midi >= 0
midiToNoteName(midi) ==
  NOTE_NAMES[(midi % 12) + 1] \o NumberToString((midi \div 12) - 1)

IsDigit(c) == c \in {"0", "1", "2", "3", "4", "5", "6", "7", "8", "9"}

\* parseInt of a string of decimal digits
RECURSIVE ParseDigits(_)
ParseDigits(digits) ==
  IF digits = <<>> THEN 0
  ELSE (10 * ParseDigits(SubSeq(digits, 1, Len(digits) - 1)))
         + (charCodeAt(digits[Len(digits)]) - 48)

\* the answer of noteNameToMidi to a name it cannot read, for every name
middleC(noteName) == 60

\* noteName.match(/^([A-G]#?)(-?\d+)$/), 60 without a match, otherwise
\* (parseInt(octaveStr, 10) + 1) * 12 + NOTE_NAMES.indexOf(note)
noteNameToMidi(noteName) ==
  LET n == Len(noteName)
      letter == n >= 1 /\ noteName[1] \in {"A", "B", "C", "D", "E", "F", "G"}
      noteLen == IF n >= 2 /\ noteName[2] = "#" THEN 2 ELSE 1
      octaveStr == SubSeq(noteName, noteLen + 1, n)
      minus == octaveStr # <<>> /\ octaveStr[1] = "-"
      digits == IF minus THEN Tail(octaveStr) ELSE octaveStr
      match == /\ letter
               /\ digits # <<>>
               /\ \A i \in DOMAIN digits : IsDigit(digits[i])
      octave == IF minus THEN -ParseDigits(digits) ELSE ParseDigits(digits)
  IN  IF ~match THEN 60
      ELSE ((octave + 1) * 12) + indexOf(NOTE_NAMES, SubSeq(noteName, 1, noteLen))

\* the MIDI numbers given to midiToNoteName, and note names given to
\* noteNameToMidi directly
MidiNumbers == 0..127

\* a field of the call record that no step has written: the number given
\* when a name is given directly, and the number read back before the call
\* of noteNameToMidi
Unset == -1

OtherNames ==
  { <<"H", "4">>, <<"C">>, <<"E", "#", "4">>, <<"C", "-", "1">>, <<"c", "4">>,
    <<"C", "4", "b">>, <<"A", "1", "0">>, <<>> }

NoteNameInit ==
  /\ ProceduralIdle
  /\ eno = Idle /\ eng = Idle
  /\ \/ \E midi \in MidiNumbers :
          pat = [pc |-> "midi", midi |-> midi, name |-> <<>>, back |-> Unset]
     \/ \E name \in OtherNames :
          pat = [pc |-> "name", midi |-> Unset, name |-> name, back |-> Unset]

ApplyMidiToNoteName ==
  /\ pat.pc = "midi"
  /\ pat' = [pat EXCEPT !.pc = "name", !.name = midiToNoteName(pat.midi)]
  /\ UNCHANGED <<procedural, eno, eng>>

ApplyNoteNameToMidi ==
  /\ pat.pc = "name"
  /\ pat' = [pat EXCEPT !.pc = "parsed", !.back = noteNameToMidi(pat.name)]
  /\ UNCHANGED <<procedural, eno, eng>>

NoteNameNext == ApplyMidiToNoteName \/ ApplyNoteNameToMidi

SpecNoteName == NoteNameInit /\ [][NoteNameNext]_vars

\* C20: noteNameToMidi(midiToNoteName(n)) = n for every n in 24..96.
C20_RoundTrip ==
  (pat.pc = "parsed" /\ pat.midi \in 24..96) => pat.back = pat.midi

\* 61 is named C#4 and read back as 61
C20_Witness ==
  /\ pat.pc = "parsed"
  /\ pat.midi = 61
  /\ pat.name = <<"C", "#", "4">>
  /\ pat.back = 61

-----------------------------------------------------------------------------
(* The page (part_006) and the asynchronous entry points of the engine.      *)
(* handlePlay and handleReseed are async functions: each press starts a      *)
(* handler that runs up to its first await of a pending promise; the rest of *)
(* it runs later, and the other handlers of the page may run in between.     *)
(* initAudio awaits importTone and T.start, builds the instruments, awaits   *)
(* reverb.generate, builds the effect chain, connects it and sets            *)
(* state.initialized.  A handler in flight is a record of the handler's name *)
(* and the await it is suspended at:                                         *)
(*   "import"   in initAudio, at await importTone() / await T.start()        *)
(*   "generate" in initAudio, at await state.reverb.generate()               *)
(* After an await of a promise that is already settled (initAudio on an      *)
(* initialized engine, a playForStar that has run to its end) the handler    *)
(* goes on before any other handler of the page runs.                        *)

\* stopAudio() on the engine fields of e
Page_stopAudio(e) ==
  IF e.transport = "null" THEN e
  ELSE [e EXCEPT !.transport = "stopped", !.loopId = FALSE, !.playing = FALSE]

\* playForStar(star, seed) from if (state.playing) stopAudio() on, for an
\* initialized engine
Page_playForStar(e) ==
  [Page_stopAudio(e) EXCEPT !.transport = "started", !.loopId = TRUE, !.playing = TRUE]

PageInit ==
  /\ ProceduralIdle
  /\ eno = Idle /\ pat = Idle
  /\ eng = [pc |-> "page", initialized |-> FALSE, transport |-> "null",
            playing |-> FALSE, loopId |-> FALSE, instruments |-> 0, chains |-> 0,
            selection |-> FALSE, pagePlaying |-> FALSE, tasks |-> <<>>,
            playPressed |-> FALSE, closed |-> FALSE]

\* onSelect={setSelection}: a star of the sky is clicked
onSelect ==
  /\ ~eng.selection
  /\ eng' = [eng EXCEPT !.selection = TRUE]
  /\ UNCHANGED <<procedural, eno, pat>>

\* a press of the Play button (shown while a star is selected and the page's
\* playing flag is false): handlePlay, whole on an initialized engine, up to
\* the first wait of initAudio on an engine that is not initialized
handlePlay ==
  /\ eng.selection /\ ~eng.pagePlaying
  /\ IF eng.initialized
     THEN eng' = [Page_playForStar(eng) EXCEPT
                    !.playPressed = TRUE,
                    !.closed = FALSE,
                    !.pagePlaying = TRUE]
     ELSE /\ Len(eng.tasks) < MaxPending
          /\ eng' = [eng EXCEPT
                       !.playPressed = TRUE,
                       !.closed = FALSE,
                       !.tasks = Append(@, [handler |-> "play", at |-> "import"])]
  /\ UNCHANGED <<procedural, eno, pat>>

\* a press of the Re-seed button (shown while a star is selected):
\* handleReseed, whole on an initialized engine, up to the first wait of the
\* initAudio that playForStar calls on an engine that is not initialized
handleReseed ==
  /\ eng.selection
  /\ IF eng.initialized
     THEN eng' = [Page_playForStar(eng) EXCEPT
                    !.closed = FALSE,
                    !.pagePlaying = TRUE]
     ELSE /\ Len(eng.tasks) < MaxPending
          /\ eng' = [eng EXCEPT
                       !.closed = FALSE,
                       !.tasks = Append(@, [handler |-> "reseed", at |-> "import"])]
  /\ UNCHANGED <<procedural, eno, pat>>

\* a press of the Pause button (shown while the page's playing flag is true)
handleStop ==
  /\ eng.selection /\ eng.pagePlaying
  /\ eng' = [Page_stopAudio(eng) EXCEPT !.pagePlaying = FALSE]
  /\ UNCHANGED <<procedural, eno, pat>>

\* Close of the star panel
onClose ==
  /\ eng.selection
  /\ eng' = [Page_stopAudio(eng) EXCEPT
               !.selection = FALSE, !.pagePlaying = FALSE, !.closed = TRUE]
  /\ UNCHANGED <<procedural, eno, pat>>

\* Reset view of the controls bar
onReset ==
  /\ eng' = [Page_stopAudio(eng) EXCEPT
               !.selection = FALSE, !.pagePlaying = FALSE, !.closed = TRUE]
  /\ UNCHANGED <<procedural, eno, pat>>

\* initAudio after importTone and T.start: the instruments are built, up to
\* await state.reverb.generate()
InitBuild ==
  \E i \in DOMAIN eng.tasks :
    /\ eng.tasks[i].at = "import"
    /\ eng' = [eng EXCEPT !.instruments = @ + 1, !.tasks[i].at = "generate"]
    /\ UNCHANGED <<procedural, eno, pat>>

\* initAudio after reverb.generate: the effect chain is built and connected,
\* state.transport and state.initialized are set, and initAudio returns.
\* The handler goes on in the same turn of the event loop: handlePlay calls
\* setVolume and playForStar, playForStar (called by handleReseed) goes on
\* after its await initAudio(), and the handler calls setPlaying(true).
InitConnect ==
  \E i \in DOMAIN eng.tasks :
    /\ eng.tasks[i].at = "generate"
    /\ eng' = [Page_playForStar([eng EXCEPT
                                   !.transport = IF @ = "null" THEN "stopped" ELSE @])
                 EXCEPT
                   !.chains = @ + 1,
                   !.initialized = TRUE,
                   !.pagePlaying = TRUE,
                   !.tasks = RemoveAt(@, i)]
    /\ UNCHANGED <<procedural, eno, pat>>

PageNext ==
  \/ onSelect
  \/ handlePlay
  \/ handleReseed
  \/ handleStop
  \/ onClose
  \/ onReset
  \/ InitBuild
  \/ InitConnect

SpecPage == PageInit /\ [][PageNext]_vars

\* C21: audio only starts after pressing Play: the transport is not started
\* unless the Play button has been pressed.
C21_StartOnlyAfterPlay ==
  (eng.pc = "page" /\ eng.transport = "started") => eng.playPressed

\* C26: a stop is never lost: once the star panel is closed or the view is
\* reset, with no press of Play or Re-seed since, and every handler in flight
\* has completed, the engine is not playing and the page's playing flag is
\* false.
C26_StopNotLost ==
  (eng.pc = "page" /\ eng.closed /\ eng.tasks = <<>>) =>
    (~eng.playing /\ ~eng.pagePlaying)

\* C27: the instruments and the effect chain are constructed and connected
\* at most once.
C27_InitOnce ==
  eng.pc = "page" => (eng.instruments <= 1 /\ eng.chains <= 1)

-----------------------------------------------------------------------------
(* Two generators built from two seeds, by new SeededRNG(seed) of part_015   *)
(* or by createRNG(seed) of procedural.ts, and their first draws.            *)

\* the number of draws compared
DrawCount == 3

SeedPairs ==
  { [ctor |-> "SeededRNG", seedA |-> a, seedB |-> b] :
      a \in {-42, -1, 0, 1, 42, 123}, b \in {-42, -1, 0, 1, 42, 123} }
  \cup
  { [ctor |-> "createRNG", seedA |-> a, seedB |-> b] :
      a \in {0, 1, 42, 123}, b \in {0, 1, 42, 123} }

\* the state of the generator the constructor makes
Construct(ctor, seed) ==
  IF ctor = "SeededRNG" THEN SeededRNG(seed) ELSE createRNG(seed)

SeedsInit ==
  /\ ProceduralIdle
  /\ eno = Idle /\ eng = Idle
  /\ \E p \in SeedPairs :
       pat = [pc |-> "seeds", ctor |-> p.ctor, seedA |-> p.seedA, seedB |-> p.seedB,
              stateA |-> Construct(p.ctor, p.seedA),
              stateB |-> Construct(p.ctor, p.seedB),
              seqA |-> <<>>, seqB |-> <<>>]

\* one draw from each generator
DrawBoth ==
  /\ pat.pc = "seeds"
  /\ Len(pat.seqA) < DrawCount
  /\ pat' = [pat EXCEPT
               !.stateA = Skip(@, 1), !.stateB = Skip(@, 1),
               !.seqA = Append(@, Draw(pat.stateA, 1)),
               !.seqB = Append(@, Draw(pat.stateB, 1))]
  /\ UNCHANGED <<procedural, eno, eng>>

SpecSeeds == SeedsInit /\ [][DrawBoth]_vars

\* C22: generators constructed from two different seeds produce sequences
\* that differ in at least one draw.
C22_DifferentSeedsDiffer ==
  (pat.pc = "seeds" /\ Len(pat.seqA) = DrawCount /\ pat.seedA # pat.seedB) =>
    pat.seqA # pat.seqB

-----------------------------------------------------------------------------
(* mutate's pitch mutation and evaluateFitness (procedural.ts) as pure       *)
(* functions of a phrase whose notes are notes generateMarkovPhrase makes:   *)
(* baseNote + interval + octaveShift * 12 with octaveShift -1 or 0.          *)

PhraseScales == {SCALES.major, SCALES.aeolian, SCALES.mixolydian}

\* the notes of generateMarkovPhrase for the scale and the base note
GeneratedNotes(scale, baseNote) ==
  { baseNote + scale.intervals[d] + (12 * o) : d \in DOMAIN scale.intervals, o \in {-1, 0} }

\* phrases of two and of three notes that differ in their last note, with the
\* value f of Math.floor(random() * 3) for a mutation of the last note
PhraseArgs ==
  { [config |-> [scale |-> scale, baseNote |-> 60, octaveRange |-> 2],
     notes |-> Append(prefix, last), f |-> f] :
      scale \in PhraseScales, prefix \in {<<60>>, <<60, 64>>},
      last \in UNION {GeneratedNotes(sc, 60) : sc \in PhraseScales}, f \in 0..2 }

PhraseInit ==
  /\ eno = Idle /\ pat = Idle /\ eng = Idle
  /\ \E a \in {a \in PhraseArgs : a.notes[Len(a.notes)] \in GeneratedNotes(a.config.scale, 60)} :
       ProceduralStart(a, 42, "phrase")

\* the pitch mutation of mutate on the last note of the phrase
ApplyMutate ==
  /\ pc = "phrase"
  /\ pc' = "mutated"
  /\ out' = MutatedNote(star.notes[Len(star.notes)], star.f, star.config)
  /\ UNCHANGED others
  /\ UNCHANGED <<star, seedArg, call, stage, rng, matrix, harmonyMatrix, heap, nextId,
                 currentPop, newPop, gen, offspring, mi, elite, initialBest, results>>

\* evaluateFitness of the phrase, with durations of one beat and velocities
\* 0.5 and 0.7
ApplyFitness ==
  /\ pc = "phrase"
  /\ pc' = "fitness"
  /\ out' = evaluateFitness(star.notes, [i \in DOMAIN star.notes |-> 4],
                            [i \in DOMAIN star.notes |->
                               IF i = 1 THEN velocityLiterals.downbeat
                               ELSE velocityLiterals.offbeat],
                            star.config)
  /\ UNCHANGED others
  /\ UNCHANGED <<star, seedArg, call, stage, rng, matrix, harmonyMatrix, heap, nextId,
                 currentPop, newPop, gen, offspring, mi, elite, initialBest, results>>

PhraseNext == ApplyMutate \/ ApplyFitness

SpecPhrase == PhraseInit /\ [][PhraseNext]_vars

\* the octave of a note relative to the base note, and its scale degree
\* (0-based; -1 for a note outside the scale)
OctaveOf(note, config) == (note - config.baseNote) \div 12
DegreeOf(note, config) == indexOf(config.scale.intervals, (note - config.baseNote) % 12)

\* C23: a pitch mutation leaves the note in its octave and moves it by at
\* most one scale degree, for notes above and below the base note.
C23_MutationAdjacentDegree ==
  pc = "mutated" =>
    LET note == star.notes[Len(star.notes)]
    IN  /\ OctaveOf(out, star.config) = OctaveOf(note, star.config)
        /\ DegreeOf(out, star.config) >= 0
        /\ Abs(DegreeOf(out, star.config) - DegreeOf(note, star.config)) <= 1

\* C24: a phrase whose last note is the root, the third or the fifth of the
\* scale, in any octave, is given the terminal bonus of 5: its fitness is 5
\* above the fitness for a base note one semitone below the last note, which
\* differs in the bonus only.
C24_TerminalBonus ==
  (pc = "fitness" /\ Len(star.notes) >= 3
     /\ DegreeOf(star.notes[Len(star.notes)], star.config) \in {0, 2, 4}) =>
    out = FAdd(evaluateFitness(star.notes, [i \in DOMAIN star.notes |-> 4],
                          [i \in DOMAIN star.notes |->
                               IF i = 1 THEN velocityLiterals.downbeat
                               ELSE velocityLiterals.offbeat],
                          [star.config EXCEPT !.baseNote = star.notes[Len(star.notes)] - 1]),
               FromInt(5))

\* C25: the fitness of a phrase of at least two notes is a positive number,
\* not NaN.
C25_FitnessPositive ==
  pc = "fitness" => (out # FNaN /\ FLt(FZero, out))


\* ---------------------------------------------------------------------
\* The centralized scheduler of scheduleGenerativeMusic (audio/engine.ts):
\* a callback repeated every 16th note that triggers the notes of the
\* current phrase lying within a lookahead window.  Times, in seconds, and
\* beats are doubles.
\* ---------------------------------------------------------------------

\* const cycleDuration = 16
cycleDuration == FromInt(16)

\* const lookaheadBeats = 0.26
lookaheadBeats == Decimal(26, 100)

\* tickNotation = "16n": a quarter of a beat between two callbacks
tickBeats == Decimal(25, 100)

\* the callbacks of one cycle
ticksPerCycle == FFloor(FDiv(cycleDuration, tickBeats))

\* the time of the audio clock, in seconds, at which the transport starts:
\* the clock runs from the creation of the audio context, the transport
\* starts when the listener presses Play
TransportStarts == {FZero, Decimal(1, 10), Decimal(5, 10), FromInt(1)}

\* const beatsToSec = (b: number) => b * (60 / tempo)
beatsToSec(b, tempo) == FMul(b, FDiv(FromInt(60), tempo))

\* the time handed to the callback of a tick: the start of the transport
\* and tick 16th notes at transport.bpm = params.tempo
callbackTime(start, tick, tempo) ==
  FAdd(start, beatsToSec(FMul(FromInt(tick), tickBeats), tempo))

\* const beatNow = (time * params.tempo) / 60;
\* const cycleBeat = beatNow % cycleDuration
cycleBeatAt(time, tempo) ==
  FMod(FDiv(FMul(time, tempo), FromInt(60)), cycleDuration)

\* the notes the callback walks through: piano notes, then guitar notes
ScheduledNotes(phrase) == phrase.pianoNotes \o phrase.guitarNotes

\* let delta = ((note.beat - cycleBeat) + cycleDuration) % cycleDuration;
\* if (delta < lookaheadBeats) trigger
triggerNote(note, cycleBeat) ==
  LET delta == FMod(FAdd(FSub(note.beat, cycleBeat), cycleDuration), cycleDuration)
  IN  FLt(delta, lookaheadBeats)

SchedulerInit ==
  /\ ProceduralIdle
  /\ eno = Idle
  /\ pat = Idle
  /\ \E s \in EngineStars, sd \in EngineSeeds \ {<<>>}, start \in TransportStarts :
     \E params \in {starToMusicParams(s)} :
     \E m \in {generateMotif(params, Engine_SeededRNG(SeedOf(sd[1])))} :
     \E c \in {composePhrase(params, m.motif, s, m.rng)} :
       eng = [pc |-> "scheduler",
              notes |-> ScheduledNotes(c.phrase),
              tempo |-> params.tempo,
              start |-> start,
              tick |-> 0,
              time |-> start,
              cycleBeat |-> FZero,
              triggered |-> [i \in DOMAIN ScheduledNotes(c.phrase) |-> 0]]

\* one run of the repeated callback
Tick ==
  /\ eng.pc = "scheduler"
  /\ eng.tick < ticksPerCycle
  /\ \E time \in {callbackTime(eng.start, eng.tick, eng.tempo)} :
     \E cycleBeat \in {cycleBeatAt(time, eng.tempo)} :
       eng' = [eng EXCEPT
                 !.tick = @ + 1,
                 !.time = time,
                 !.cycleBeat = cycleBeat,
                 !.triggered = [i \in DOMAIN eng.notes |->
                                  IF triggerNote(eng.notes[i], cycleBeat)
                                  THEN eng.triggered[i] + 1
                                  ELSE eng.triggered[i]]]
  /\ UNCHANGED <<procedural, eno, pat>>

SpecScheduler == SchedulerInit /\ [][Tick]_vars

\* C28: over one 16-beat cycle of scheduler callbacks every note of the
\* phrase is triggered exactly once, none skipped and none doubled
C28_EachNoteOnce ==
  (eng.pc = "scheduler" /\ eng.tick = ticksPerCycle)
    => \A i \in DOMAIN eng.notes : eng.triggered[i] = 1

\* C29: over any sequence of completed playForStar and stopAudio calls at
\* most one scheduler loop is registered on the transport, and when stopAudio
\* returns isPlaying() is false and neither a loop nor a scheduled event of
\* the playback remains
C29_OneLoopCleanStop ==
  [][/\ eng'.pc = "engine" => eng'.timeline.loops <= 1
     /\ stopAudio => (~eng'.playing /\ eng'.timeline = NoTimeline)]_vars

\* stopAudio has returned after two playbacks in a row: the engine has its
\* transport and does not play
C29_Witness ==
  /\ eng.pc = "engine"
  /\ eng.previous # Null
  /\ eng.transport
  /\ ~eng.playing
  /\ eng.timeline = NoTimeline

\* ---------------------------------------------------------------------
\* The motif over the cycles of a playback (audio/engine.ts): generateMotif
\* in playForStar, then evolveMotif in every fourth end-of-cycle callback.
\* ---------------------------------------------------------------------

\* the number of end-of-cycle callbacks followed after a playForStar
MaxCycles == 160

\* the engine after playForStar(s, sd)
EvolveInit ==
  /\ ProceduralIdle
  /\ eno = Idle
  /\ pat = Idle
  /\ \E s \in EngineStars, sd \in EngineSeeds :
       /\ \E finalSeed \in {IF sd = <<>> THEN <<hashStar(s), 0>> ELSE SeedOf(sd[1])} :
          \E params \in {starToMusicParams(s)} :
          \E m \in {generateMotif(params, Engine_SeededRNG(finalSeed))} :
          \E c \in {composePhrase(params, m.motif, s, m.rng)} :
            eng = [pc |-> "evolve", currentStar |-> s, params |-> params,
                   motif |-> m.motif, rng |-> c.rng, phraseCount |-> 0]

\* the callback at the end of a cycle: state.phraseCount++, and on every
\* fourth cycle evolveMotif and composePhrase, which both draw from rng
CycleEnd ==
  /\ eng.pc = "evolve"
  /\ eng.phraseCount < MaxCycles
  /\ IF (eng.phraseCount + 1) % 4 = 0
     THEN \E e \in {evolveMotif(eng.params, eng.motif, eng.rng)} :
          \E c \in {composePhrase(eng.params, e.motif, eng.currentStar, e.rng)} :
            eng' = [eng EXCEPT
                      !.phraseCount = @ + 1,
                      !.motif = e.motif,
                      !.rng = c.rng]
     ELSE eng' = [eng EXCEPT !.phraseCount = @ + 1]
  /\ UNCHANGED <<procedural, eno, pat>>

SpecEvolve == EvolveInit /\ [][CycleEnd]_vars

\* C30: after playForStar and any number of evolveMotif steps the motif has
\* between 3 and 6 entries, each of them an interval of the star's scale
C30_MotifShape ==
  eng.pc = "evolve" =>
    /\ Len(eng.motif) >= 3
    /\ Len(eng.motif) <= 6
    /\ \A i \in DOMAIN eng.motif :
         \E j \in DOMAIN eng.params.scale.intervals :
           eng.motif[i] = eng.params.scale.intervals[j]

\* a motif that evolveMotif has grown to six entries
C30_Witness ==
  /\ eng.pc = "evolve"
  /\ eng.phraseCount >= 4
  /\ Len(eng.motif) = 6

====
